---- MODULE Spec2Model ----
(***************************************************************************)
(* Voice-commanded drone: utterance parser, unit conversion, command       *)
(* executor and command-chain orchestrator, modelled from src/.            *)
(*                                                                         *)
(* Conventions                                                             *)
(*  - A Python str is a sequence of one-character strings.                 *)
(*  - Python None is the empty sequence; an optional value v is <<v>>      *)
(*    (a position [n, e, d] is the 3-sequence itself).                     *)
(*  - Real quantities (meters, degrees) are integers scaled by 10000, so   *)
(*    that the conversion factors of config.py are exact.                  *)
(*  - asyncio is cooperative: `running` names the task that holds the      *)
(*    event loop; other tasks only run once it reaches a suspension point. *)
(***************************************************************************)
EXTENDS Integers, Sequences, FiniteSets, TLC

(***************************************************************************)
(* Strings                                                                 *)
(***************************************************************************)
None == <<>>

LowerChars == <<"a","b","c","d","e","f","g","h","i","j","k","l","m",
                "n","o","p","q","r","s","t","u","v","w","x","y","z">>

UpperChars == <<"A","B","C","D","E","F","G","H","I","J","K","L","M",
                "N","O","P","Q","R","S","T","U","V","W","X","Y","Z">>

DigitChars == <<"0","1","2","3","4","5","6","7","8","9">>

InSeq(c, s) == \E i \in 1..Len(s) : s[i] = c

IndexOf(c, s) == CHOOSE i \in 1..Len(s) : s[i] = c

\* str.isspace for one character (\s of the regular expressions)
IsSpace(c) == c \in {" ", "\t", "\n"}

\* \d
IsDigit(c) == InSeq(c, DigitChars)

\* \w
IsWordChar(c) == InSeq(c, LowerChars) \/ InSeq(c, UpperChars) \/ IsDigit(c) \/ c = "_"

\* str.lower
lower(s) ==
    [i \in 1..Len(s) |->
        IF InSeq(s[i], UpperChars) THEN LowerChars[IndexOf(s[i], UpperChars)] ELSE s[i]]

\* s[i:].startswith(w)
StartsWithAt(s, i, w) ==
    /\ i >= 1
    /\ i + Len(w) - 1 <= Len(s)
    /\ \A k \in 1..Len(w) : s[i + k - 1] = w[k]

\* w in s
Contains(s, w) == \E i \in 1..(Len(s) + 1) : StartsWithAt(s, i, w)

\* s.find(w), 1-based; 0 when absent
Find(s, w) ==
    IF Contains(s, w)
    THEN CHOOSE i \in 1..(Len(s) + 1) :
            /\ StartsWithAt(s, i, w)
            /\ \A j \in 1..(i - 1) : ~StartsWithAt(s, j, w)
    ELSE 0

\* first index >= i that holds no whitespace (Len(s) + 1 when there is none)
SkipSpaces(s, i) ==
    IF \E j \in i..Len(s) : ~IsSpace(s[j])
    THEN CHOOSE j \in i..Len(s) : ~IsSpace(s[j]) /\ \A k \in i..(j - 1) : IsSpace(s[k])
    ELSE Len(s) + 1

\* str.strip
strip(s) ==
    LET first == SkipSpaces(s, 1)
        last  == IF first > Len(s) THEN 0
                 ELSE CHOOSE j \in first..Len(s) :
                        ~IsSpace(s[j]) /\ \A k \in (j + 1)..Len(s) : IsSpace(s[k])
    IN  SubSeq(s, first, last)

\* s.replace(w, '', 1)
RemoveFirst(s, w) ==
    LET i == Find(s, w)
    IN  IF i = 0 THEN s ELSE SubSeq(s, 1, i - 1) \o SubSeq(s, i + Len(w), Len(s))

\* str.split(): the maximal runs of non-whitespace
RECURSIVE SplitWords(_, _, _)
SplitWords(s, i, acc) ==
    LET b == SkipSpaces(s, i)
    IN  IF b > Len(s) THEN acc
        ELSE LET e == IF \E j \in b..Len(s) : IsSpace(s[j])
                      THEN (CHOOSE j \in b..Len(s) :
                                IsSpace(s[j]) /\ \A k \in b..(j - 1) : ~IsSpace(s[k])) - 1
                      ELSE Len(s)
             IN  SplitWords(s, e + 1, Append(acc, SubSeq(s, b, e)))

(***************************************************************************)
(* config.py: the lexicon                                                  *)
(***************************************************************************)
COMMAND_DICT ==
    << <<"STOP", <<<<"s","t","o","p">>, <<"s","t","o","p"," ","d","r","o","n","e">>>>>>,
       <<"RETURN", <<<<"r","e","t","u","r","n">>, <<"c","o","m","e"," ","h","o","m","e">>, <<"h","o","m","e">>>>>>,
       <<"LAND", <<<<"l","a","n","d">>, <<"l","a","n","d"," ","d","r","o","n","e">>>>>>,
       <<"FORWARD", <<<<"f","o","r","w","a","r","d">>>>>>,
       <<"BACKWARD", <<<<"b","a","c","k","w","a","r","d">>>>>>,
       <<"UP", <<<<"u","p">>>>>>,
       <<"DOWN", <<<<"d","o","w","n">>>>>>,
       <<"LEFT", <<<<"l","e","f","t">>>>>>,
       <<"RIGHT", <<<<"r","i","g","h","t">>>>>>,
       <<"RO_LEFT", <<<<"t","u","r","n"," ","l","e","f","t">>, <<"r","o","t","a","t","e"," ","l","e","f","t">>>>>>,
       <<"RO_RIGHT", <<<<"t","u","r","n"," ","r","i","g","h","t">>, <<"r","o","t","a","t","e"," ","r","i","g","h","t">>>>>>,
       <<"TAKEOFF", <<<<"t","a","k","e","o","f","f">>, <<"t","a","k","e"," ","o","f","f">>>>>>,
       <<"DISARM", <<<<"d","i","s","a","r","m">>, <<"d","i","s","a","r","m"," ","d","r","o","n","e">>>>>>,
       <<"ARM", <<<<"a","r","m">>, <<"a","r","m"," ","d","r","o","n","e">>>>>>,
       <<"SHUTDOWN", <<<<"s","h","u","t","d","o","w","n">>, <<"p","o","w","e","r"," ","o","f","f">>>>>> >>

\* the dict comprehension: triggers in declaration order, command by command
RECURSIVE FlattenTriggers(_, _, _, _)
FlattenTriggers(dict, i, j, acc) ==
    IF i > Len(dict) THEN acc
    ELSE IF j > Len(dict[i][2]) THEN FlattenTriggers(dict, i + 1, 1, acc)
    ELSE FlattenTriggers(dict, i, j + 1, Append(acc, <<dict[i][2][j], dict[i][1]>>))

COMMAND_LOOKUP == FlattenTriggers(COMMAND_DICT, 1, 1, <<>>)

NUM_DICT ==
    << <<<<"o","n","e">>, 1>>,
       <<<<"t","w","o">>, 2>>,
       <<<<"t","o">>, 2>>,
       <<<<"t","h","r","e","e">>, 3>>,
       <<<<"f","o","u","r">>, 4>>,
       <<<<"f","o","r">>, 4>>,
       <<<<"f","i","v","e">>, 5>>,
       <<<<"s","i","x">>, 6>>,
       <<<<"s","e","v","e","n">>, 7>>,
       <<<<"e","i","g","h","t">>, 8>>,
       <<<<"n","i","n","e">>, 9>>,
       <<<<"t","e","n">>, 10>>,
       <<<<"e","l","e","v","e","n">>, 11>>,
       <<<<"t","w","e","l","v","e">>, 12>>,
       <<<<"t","h","i","r","t","e","e","n">>, 13>>,
       <<<<"f","o","u","r","t","e","e","n">>, 14>>,
       <<<<"f","i","f","t","e","e","n">>, 15>>,
       <<<<"s","i","x","t","e","e","n">>, 16>>,
       <<<<"s","e","v","e","n","t","e","e","n">>, 17>>,
       <<<<"e","i","g","h","t","e","e","n">>, 18>>,
       <<<<"n","i","n","e","t","e","e","n">>, 19>>,
       <<<<"t","w","e","n","t","y">>, 20>>,
       <<<<"t","h","i","r","t","y">>, 30>>,
       <<<<"f","o","r","t","y">>, 40>>,
       <<<<"f","i","f","t","y">>, 50>>,
       <<<<"s","i","x","t","y">>, 60>>,
       <<<<"s","e","v","e","n","t","y">>, 70>>,
       <<<<"e","i","g","h","t","y">>, 80>>,
       <<<<"n","i","n","e","t","y">>, 90>>,
       <<<<"h","u","n","d","r","e","d">>, 100>> >>

\* UNIT_PATTERNS: unit -> the words of \b(?:w1|w2)\b, in declaration order
UNIT_PATTERNS ==
    << <<"inches",  << <<"i","n","c","h">>, <<"i","n","c","h","e","s">> >> >>,
       <<"feet",    << <<"f","e","e","t">>, <<"f","o","o","t">> >> >>,
       <<"yards",   << <<"y","a","r","d">>, <<"y","a","r","d","s">> >> >>,
       <<"degrees", << <<"d","e","g","r","e","e">>, <<"d","e","g","r","e","e","s">> >> >> >>

\* SEPARATOR_PATTERN, first branch: ,\s*(?:then\s+|and\s+|next\s+)?
CommaKeywords == << << <<"t","h","e","n">> >>, << <<"a","n","d">> >>, << <<"n","e","x","t">> >> >>

\* SEPARATOR_PATTERN, second branch:
\*   ,?\s+(?:then|and|next|after\s+that|followed\s+by|afterward)\s+
\* each keyword is the sequence of its words, which \s+ separates
SpaceKeywords ==
    << <<<<"t","h","e","n">>>>, <<<<"a","n","d">>>>, <<<<"n","e","x","t">>>>, <<<<"a","f","t","e","r">>, <<"t","h","a","t">>>>, <<<<"f","o","l","l","o","w","e","d">>, <<"b","y">>>>, <<<<"a","f","t","e","r","w","a","r","d">>>> >>

(***************************************************************************)
(* voice/parser.py                                                         *)
(***************************************************************************)
\* keyword kw (words separated by \s+) matched at j from its n-th word on:
\* the index after it, 0 when it does not match
RECURSIVE KeywordEnd(_, _, _, _)
KeywordEnd(s, j, kw, n) ==
    IF ~StartsWithAt(s, j, kw[n]) THEN 0
    ELSE LET e == j + Len(kw[n])
         IN  IF n = Len(kw) THEN e
             ELSE IF e <= Len(s) /\ IsSpace(s[e])
                  THEN KeywordEnd(s, SkipSpaces(s, e), kw, n + 1)
                  ELSE 0

\* (?:k1|k2|...)\s+ matched at j, alternatives tried in order:
\* the index after the whitespace, 0 when none matches
RECURSIVE AltEnd(_, _, _, _)
AltEnd(s, j, kws, k) ==
    IF k > Len(kws) THEN 0
    ELSE LET e == KeywordEnd(s, j, kws[k], 1)
         IN  IF e > 0 /\ e <= Len(s) /\ IsSpace(s[e])
             THEN SkipSpaces(s, e)
             ELSE AltEnd(s, j, kws, k + 1)

\* SEPARATOR_PATTERN matched at i: the index after the match, 0 when none
SepMatchEnd(s, i) ==
    IF s[i] = ","
    THEN LET j == SkipSpaces(s, i + 1)
             e == AltEnd(s, j, CommaKeywords, 1)
         IN  IF e > 0 THEN e ELSE j
    ELSE IF IsSpace(s[i])
         THEN AltEnd(s, SkipSpaces(s, i), SpaceKeywords, 1)
         ELSE 0

\* SEPARATOR_PATTERN.split(s): leftmost matches, left to right
RECURSIVE SplitFrom(_, _, _, _)
SplitFrom(s, i, start, acc) ==
    IF i > Len(s) THEN Append(acc, SubSeq(s, start, Len(s)))
    ELSE LET e == SepMatchEnd(s, i)
         IN  IF e > 0
             THEN SplitFrom(s, e, e, Append(acc, SubSeq(s, start, i - 1)))
             ELSE SplitFrom(s, i + 1, start, acc)

SEPARATOR_split(s) == SplitFrom(s, 1, 1, <<>>)

\* int(digits)
RECURSIVE DecimalValue(_, _, _)
DecimalValue(s, i, acc) ==
    IF i > Len(s) THEN acc
    ELSE DecimalValue(s, i + 1, acc * 10 + (IndexOf(s[i], DigitChars) - 1))

\* DIGIT_PATTERN.search(s).group(): the first maximal run of digits
DigitMatch(s) ==
    LET b == CHOOSE i \in 1..Len(s) : IsDigit(s[i]) /\ \A k \in 1..(i - 1) : ~IsDigit(s[k])
        e == CHOOSE j \in b..Len(s) :
                /\ \A k \in b..j : IsDigit(s[k])
                /\ (j = Len(s) \/ ~IsDigit(s[j + 1]))
    IN  SubSeq(s, b, e)

InNumDict(word) == \E i \in 1..Len(NUM_DICT) : NUM_DICT[i][1] = word

NumValue(word) == NUM_DICT[CHOOSE i \in 1..Len(NUM_DICT) : NUM_DICT[i][1] = word][2]

\* a word-number loop without its break: it adds up every number-word
RECURSIVE SumEveryWord(_, _, _)
SumEveryWord(words, k, total) ==
    IF k > Len(words) THEN total
    ELSE SumEveryWord(words, k + 1,
                      IF ~InNumDict(words[k]) THEN total
                      ELSE IF NumValue(words[k]) = 100 THEN total * 100
                      ELSE total + NumValue(words[k]))

\* the word-number loop of extract_values
RECURSIVE SumWords(_, _, _)
SumWords(words, k, total) ==
    IF k > Len(words) THEN total
    ELSE IF InNumDict(words[k])
         THEN SumWords(words, k + 1,
                       IF NumValue(words[k]) = 100 THEN total * 100
                       ELSE total + NumValue(words[k]))
         ELSE IF total > 0 THEN total
              ELSE SumWords(words, k + 1, total)

\* \b at position p (between s[p-1] and s[p])
WordBoundaryAt(s, p) ==
    LET before == p > 1 /\ p - 1 <= Len(s) /\ IsWordChar(s[p - 1])
        after  == p >= 1 /\ p <= Len(s) /\ IsWordChar(s[p])
    IN  before # after

\* pattern.search(s) for \b(?:w1|w2)\b
UnitPatternFound(s, words) ==
    \E i \in 1..Len(s) : \E w \in 1..Len(words) :
        /\ WordBoundaryAt(s, i)
        /\ StartsWithAt(s, i, words[w])
        /\ WordBoundaryAt(s, i + Len(words[w]))

\* the first unit of UNIT_PATTERNS whose pattern is found, None when none is
RECURSIVE FirstUnit(_, _)
FirstUnit(s, k) ==
    IF k > Len(UNIT_PATTERNS) THEN None
    ELSE IF UnitPatternFound(s, UNIT_PATTERNS[k][2]) THEN <<UNIT_PATTERNS[k][1]>>
    ELSE FirstUnit(s, k + 1)

\* Python truth of an optional number: not None and not 0
Truthy(v) == v # None /\ v[1] # 0

extract_values(input) ==
    IF input = <<>> THEN <<None, None>>
    ELSE LET inp == strip(input)
             distVal ==
                IF \E i \in 1..Len(inp) : IsDigit(inp[i])
                THEN <<DecimalValue(DigitMatch(inp), 1, 0)>>
                ELSE LET total == SumWords(SplitWords(inp, 1, <<>>), 1, 0)
                     IN  IF total > 0 THEN <<total>> ELSE None
             distType == FirstUnit(inp, 1)
         IN  <<distVal, IF Truthy(distVal) /\ distType = None THEN <<"meters">> ELSE distType>>

\* a lookup that takes the first trigger of the lexicon whatever the text is
AlwaysFirstTrigger(command) == 1

\* index in COMMAND_LOOKUP of the first trigger that occurs in command, 0 when none
FirstTrigger(command) ==
    IF \E k \in 1..Len(COMMAND_LOOKUP) : Contains(command, COMMAND_LOOKUP[k][1])
    THEN CHOOSE k \in 1..Len(COMMAND_LOOKUP) :
            /\ Contains(command, COMMAND_LOOKUP[k][1])
            /\ \A j \in 1..(k - 1) : ~Contains(command, COMMAND_LOOKUP[j][1])
    ELSE 0

get_command(command) ==
    IF command = <<>> THEN <<None, None, None>>
    ELSE LET cmd == strip(command)
             k   == FirstTrigger(cmd)
         IN  IF k = 0 THEN <<None, None, None>>
             ELSE LET remInput == strip(RemoveFirst(cmd, COMMAND_LOOKUP[k][1]))
                      vals     == extract_values(remInput)
                  IN  << <<COMMAND_LOOKUP[k][2]>>, vals[1], vals[2] >>

\* a loop that stops after the first fragment
FirstFragmentOnly(commands, i, parsedCommands) ==
    IF commands = <<>> \/ strip(commands[1]) = <<>>
          \/ get_command(strip(commands[1]))[1] = None
    THEN <<>>
    ELSE <<get_command(strip(commands[1]))>>

RECURSIVE ParseFragments(_, _, _)
ParseFragments(commands, i, parsedCommands) ==
    IF i > Len(commands) THEN parsedCommands
    ELSE LET command == strip(commands[i])
             result  == get_command(command)
         IN  ParseFragments(commands, i + 1,
                IF command # <<>> /\ result[1] # None
                THEN Append(parsedCommands, result)
                ELSE parsedCommands)

parse_commands(input) ==
    IF input = <<>> THEN <<>>
    ELSE ParseFragments(SEPARATOR_split(lower(input)), 1, <<>>)

(***************************************************************************)
(* utils.py: unit conversion with its cache                                *)
(***************************************************************************)
\* CONVERSION_FACTORS of config.py, each factor times 10000
CONVERSION_FACTORS ==
    << <<"inches", 254>>, <<"feet", 3048>>, <<"yards", 9144>>,
       <<"meters", 10000>>, <<"degrees", 10000>> >>

\* CONVERSION_FACTORS.get(unit)
Factor(unit) ==
    IF \E k \in 1..Len(CONVERSION_FACTORS) : CONVERSION_FACTORS[k][1] = unit
    THEN <<CONVERSION_FACTORS[CHOOSE k \in 1..Len(CONVERSION_FACTORS) :
                                CONVERSION_FACTORS[k][1] = unit][2]>>
    ELSE None

CACHE_CAPACITY == 50

\* a lookup that answers with the entry of any unit for the value
UnitBlindLookup(cache, value, unit) ==
    IF ~Truthy(value) \/ unit = None THEN None
    ELSE IF \E k \in DOMAIN cache : k[1] = value[1]
         THEN <<cache[CHOOSE k \in DOMAIN cache : k[1] = value[1]]>>
         ELSE IF Factor(unit[1]) = None THEN None
         ELSE <<value[1] * Factor(unit[1])[1]>>

\* the value convert_to_meters(value, unit) returns with the cache `cache`
convert_to_meters(cache, value, unit) ==
    IF ~Truthy(value) \/ unit = None THEN None
    ELSE LET cacheKey == <<value[1], unit[1]>>
         IN  IF cacheKey \in DOMAIN cache THEN <<cache[cacheKey]>>
             ELSE IF Factor(unit[1]) = None THEN None
             ELSE <<value[1] * Factor(unit[1])[1]>>

\* a cache without a capacity: every new result is stored
CacheAlwaysAdds(cache, value, unit) ==
    IF ~Truthy(value) \/ unit = None THEN cache
    ELSE LET cacheKey == <<value[1], unit[1]>>
         IN  IF cacheKey \in DOMAIN cache \/ Factor(unit[1]) = None THEN cache
             ELSE [k \in DOMAIN cache \cup {cacheKey} |->
                      IF k = cacheKey THEN value[1] * Factor(unit[1])[1] ELSE cache[k]]

\* the cache convert_to_meters(value, unit) leaves
CacheAfter(cache, value, unit) ==
    IF ~Truthy(value) \/ unit = None THEN cache
    ELSE LET cacheKey == <<value[1], unit[1]>>
         IN  IF cacheKey \in DOMAIN cache \/ Factor(unit[1]) = None THEN cache
             ELSE IF Cardinality(DOMAIN cache) < CACHE_CAPACITY
                  THEN [k \in DOMAIN cache \cup {cacheKey} |->
                            IF k = cacheKey THEN value[1] * Factor(unit[1])[1] ELSE cache[k]]
                  ELSE cache

(***************************************************************************)
(* Bounds and inputs                                                       *)
(***************************************************************************)
\* chain tasks the ingestion loop may spawn in one run
MaxTasks == 2

TaskIds == 1..MaxTasks

\* what the transcription source may deliver
Utterances ==
    { <<"s","t","o","p">>,
      <<"f","o","r","w","a","r","d"," ","t","h","e","n"," ","d","i","s","a","r","m"," ","t","h","e","n"," ","l","a","n","d">>,
      <<"t","a","k","e"," ","o","f","f">>,
      <<"h","o","m","e">>,
      <<"p","o","w","e","r"," ","o","f","f">>,
      <<"p","o","w","e","r"," ","o","f","f"," ","t","h","e","n"," ","l","a","n","d">>,
      <<"l","a","n","d"," ","t","h","e","n"," ","s","t","o","p">>,
      <<"h","e","l","l","o">> }

\* parse_commands of each utterance
Parsed == [u \in Utterances |-> parse_commands(u)]

\* headings the attitude telemetry may report (degrees times 10000)
YawChoices == {0}

\* positions the position telemetry may report (meters times 10000)
PositionChoices == {<<0, 0, 0>>}

\* how an awaited vehicle call may end
CallOutcomes == {"ok", "timeout", "rejected", "error"}

\* how a telemetry read may end
ReadOutcomes == {"value", "fail"}

(***************************************************************************)
(* config.py, drone/state.py: process-wide state                           *)
(***************************************************************************)
VARIABLES
    SIM_MODE,           \* config.SIM_MODE, fixed for a run
    commandExecuting,   \* config._commandExecuting
    stopRequested,      \* config._stopRequested
    conversionCache,    \* config._conversionCache
    droneInstance,      \* state.droneInstance: None or the handle
    nedPosition,        \* state.nedPosition: None or <<north, east, down>>
    offboard,           \* state.offboard
    vehArmed,           \* the vehicle: armed
    vehInAir,           \* the vehicle: airborne
    terminated,         \* SystemExit was raised: the event loop is closing
    ingestRunning,      \* process_voice_commands spawned a task and has not reached
                        \* a suspension point since: it holds the event loop
    running,            \* the chain task that holds the event loop, 0 when none
    task,               \* the execute_command_chain tasks
    parseInput,         \* the argument of a direct call of parse_commands
    parseResult,        \* <<the list that call returned>>, <<>> while there is none
    conversions,        \* the direct calls of convert_to_meters: arguments and result
    connection,         \* connect_to_drone: where it is and what it did so far
    cleanupState        \* a direct call of cleanup_drone: where it is

vars == <<SIM_MODE, commandExecuting, stopRequested, conversionCache, droneInstance,
          nedPosition, offboard, vehArmed, vehInAir, terminated, ingestRunning,
          running, task, parseInput, parseResult, conversions, connection,
          cleanupState>>

BASE_DIRECTION_OFFSETS ==
    [d \in {"FORWARD", "BACKWARD", "LEFT", "RIGHT", "UP", "DOWN"} |->
        CASE d = "FORWARD"  -> <<1, 0, 0>>
          [] d = "BACKWARD" -> <<-1, 0, 0>>
          [] d = "LEFT"     -> <<0, -1, 0>>
          [] d = "RIGHT"    -> <<0, 1, 0>>
          [] d = "UP"       -> <<0, 0, -1>>
          [] d = "DOWN"     -> <<0, 0, 1>>]

DisableCmds == {"STOP", "RETURN", "LAND", "DISARM", "SHUTDOWN"}

MoveCmds == {"FORWARD", "BACKWARD", "UP", "DOWN", "LEFT", "RIGHT"}

RotCmds == {"RO_LEFT", "RO_RIGHT"}

SimEnableCmds == MoveCmds \cup RotCmds \cup {"TAKEOFF", "ARM"}

\* pcs at which a task holds the event loop (no suspension point reached yet)
TokenPcs == {"loop", "exec", "ret"}

\* suspension points inside execute_movement_command / execute_rotation_command,
\* all under the caller's wait_for(..., MOVEMENT_TIMEOUT)
MovementPcs == {"i_armed", "i_inair", "i_mode", "i_yaw", "i_pos", "i_setpoint",
                "i_start", "i_settle", "m_yaw", "m_setpoint", "m_poll"}

\* every suspension point of a chain task
SuspendedPcs == MovementPcs \cup {"w_offstop", "w_armed", "w_inair", "w_mode",
                                  "w_action", "c_stop"}

\* connect_to_drone has not been called
IdleConnection ==
    [pc |-> "idle", retryCount |-> 0, retryDelay |-> 0, attempts |-> 0,
     slept |-> <<>>, handlers |-> <<>>, stableAt |-> 0, result |-> "none"]

\* cleanup_drone has not been called
IdleCleanup == [pc |-> "idle", calls |-> 0, wasOffboard |-> FALSE, stop |-> "none"]

\* a task object before its coroutine has run
NewTask ==
    [chain |-> <<>>, pc |-> "new", i |-> 0, result |-> "None",
     offboard |-> FALSE, distMeters |-> None, nedPos |-> None, yaw |-> 0,
     newPos |-> None, pollI |-> 0,
     started |-> <<>>, returned |-> 0, stepCalls |-> <<>>,
     isArmed |-> "none", isInAir |-> "none", entryOffboard |-> FALSE,
     waitEnd |-> "none", how |-> "none", exitCalls |-> <<>>]

cmdType(r) == r.chain[r.i][1][1]

distVal(r) == r.chain[r.i][2]

distType(r) == r.chain[r.i][3]

\* math.cos / math.sin of a heading that is a multiple of 90 degrees
Quarter(yaw) == (yaw \div 900000) % 4

CosYaw(yaw) == <<1, 0, -1, 0>>[Quarter(yaw) + 1]

SinYaw(yaw) == <<0, 1, 0, -1>>[Quarter(yaw) + 1]

(***************************************************************************)
(* Scheduling                                                              *)
(***************************************************************************)
\* a spawned task whose coroutine has not run yet: it is in the ready queue
PendingStart == {t \in TaskIds : task[t].pc = "new" /\ task[t].chain # <<>>}

\* task t resumes from a suspension point: the event loop is free, and tasks
\* made ready by create_task run first
CanResume(t) ==
    /\ ~terminated
    /\ running = 0
    /\ ~ingestRunning
    /\ PendingStart = {}

\* task t goes on without having reached a suspension point
CanContinue(t) == running = t

\* the task record becomes r; the task keeps the event loop unless r is suspended
Step(t, r) ==
    /\ task' = [task EXCEPT ![t] = r]
    /\ running' = IF r.pc \in TokenPcs THEN t ELSE 0

(***************************************************************************)
(* drone/command.py: execute_command                                       *)
(***************************************************************************)
\* return v
Returned(r, v) ==
    [r EXCEPT !.pc = "ret", !.result = v, !.returned = @ + 1,
              !.offboard = FALSE, !.distMeters = None, !.nedPos = None,
              !.yaw = 0, !.newPos = None, !.pollI = 0]

\* await asyncio.wait_for(<call>(arg), ...): the call is issued, the task suspends.
\* The record of the call keeps whether the vehicle was airborne when it was
\* issued, and the cached offboard flag (as it was then; for offboard.stop(), once
\* it ended, as its handler left it).
Issue(r, call, arg, pc) ==
    [r EXCEPT !.pc = pc,
              !.stepCalls = Append(@, [call |-> call, arg |-> arg, status |-> "pending",
                                       inAir |-> vehInAir, flag |-> offboard])]

\* the awaited call ended
Ended(r, outcome) ==
    [r EXCEPT !.stepCalls[Len(r.stepCalls)].status = outcome]

\* the action STOP, RETURN and LAND issue
ActionOf(cmd) ==
    CASE cmd = "STOP"   -> "hold"
      [] cmd = "RETURN" -> "return_to_launch"
      [] cmd = "LAND"   -> "land"

\* lines 169-284 up to the first suspension point
Dispatch(r) ==
    LET cmd == cmdType(r)
    IN  CASE cmd = "ARM"      -> Issue(r, "arm", <<>>, "w_action")
          [] cmd = "SHUTDOWN" -> Returned(r, "SHUTDOWN")
          [] cmd = "DISARM"   -> [r EXCEPT !.pc = "w_inair"]
          [] cmd \in {"STOP", "RETURN", "LAND", "TAKEOFF"} \cup MoveCmds \cup RotCmds
                              -> [r EXCEPT !.pc = "w_armed"]
          [] OTHER            -> Returned(r, "None")

\* an execute_command that never looks at the stop request
StopRequestIgnored(cmd) == FALSE

\* the stop request check at the start of execute_command
SkipForStop(cmd) == stopRequested /\ cmd # "STOP"

\* SIM_MODE: the offboard state the command leaves
SimOffboard(cmd, flag) ==
    IF cmd \in DisableCmds /\ flag THEN FALSE
    ELSE IF cmd \in SimEnableCmds THEN TRUE
    ELSE flag

\* execute_command from its entry to its first suspension point
ExecEntry(t) ==
    /\ CanContinue(t)
    /\ task[t].pc = "exec"
    /\ LET r0  == [task[t] EXCEPT !.started = Append(@, task[t].i),
                                  !.stepCalls = <<>>,
                                  !.isArmed = "none", !.isInAir = "none",
                                  !.entryOffboard = offboard, !.waitEnd = "none"]
           cmd == cmdType(r0)
       IN  IF SkipForStop(cmd)
           THEN /\ Step(t, Returned(r0, "None"))
                /\ UNCHANGED <<droneInstance, conversionCache, offboard>>
           ELSE LET r == [r0 EXCEPT !.offboard = offboard,
                                    !.distMeters =
                                        IF Truthy(distVal(r0))
                                        THEN convert_to_meters(conversionCache,
                                                               distVal(r0), distType(r0))
                                        ELSE None]
                IN  /\ droneInstance' = <<"System">>
                    /\ conversionCache' =
                          IF Truthy(distVal(r0))
                          THEN CacheAfter(conversionCache, distVal(r0), distType(r0))
                          ELSE conversionCache
                    /\ IF SIM_MODE
                       THEN /\ offboard' = SimOffboard(cmd, offboard)
                            /\ Step(t, Returned(r, IF cmd = "SHUTDOWN"
                                                   THEN "SHUTDOWN" ELSE "None"))
                       ELSE /\ UNCHANGED offboard
                            /\ IF r.offboard /\ cmd \in DisableCmds
                               THEN Step(t, Issue(r, "offboard_stop", <<>>, "w_offstop"))
                               ELSE Step(t, Dispatch(r))
    /\ UNCHANGED <<parseInput, parseResult, conversions, connection, cleanupState>>
    /\ UNCHANGED <<SIM_MODE, commandExecuting, stopRequested, nedPosition,
                   vehArmed, vehInAir, terminated, ingestRunning>>

\* a timeout handler that leaves the flag alone
OnlySuccessClearsFlag(outcome) == outcome = "ok"

\* what the offboard stop of lines 156-167 leaves in the cached flag
\* (TRUE: the flag is cleared)
StopClearsFlag(outcome) == outcome \in {"ok", "timeout"}

\* a timeout handler without its return: the command goes on after a timeout too
StopSucceededOrTimedOut(outcome) == outcome \in {"ok", "timeout"}

\* the stop completed: line 159 is reached and the command goes on to its action
StopSucceeded(outcome) == outcome = "ok"

\* drone.offboard.stop() of execute_command ended
OffboardStopDone(t, outcome) ==
    /\ CanResume(t)
    /\ task[t].pc = "w_offstop"
    /\ LET flag == IF StopClearsFlag(outcome) THEN FALSE ELSE offboard
           r    == [Ended(task[t], outcome) EXCEPT
                       !.stepCalls[Len(task[t].stepCalls)].flag = flag]
       IN  /\ offboard' = flag
           /\ IF StopSucceeded(outcome)
              THEN Step(t, Dispatch([r EXCEPT !.offboard = FALSE]))
              ELSE Step(t, Returned(r, "None"))
    /\ UNCHANGED <<parseInput, parseResult, conversions, connection, cleanupState>>
    /\ UNCHANGED <<SIM_MODE, commandExecuting, stopRequested, conversionCache,
                   droneInstance, nedPosition, vehArmed, vehInAir, terminated,
                   ingestRunning>>

\* an armed check that answers True when the read raises
check_armed_state_default_true(outcome) == outcome = "fail" \/ vehArmed

\* an armed check that always answers True
ArmedCheckSkipped(outcome) == TRUE

\* check_armed_state: the value read, False when the read raises
check_armed_state(outcome) == outcome = "value" /\ vehArmed

\* an in-air check that answers True when the read raises
check_in_air_default_true(outcome) == outcome = "fail" \/ vehInAir

\* check_in_air: the value read, False when the read raises
check_in_air(outcome) == outcome = "value" /\ vehInAir

\* what a read is recorded as
ReadResult(outcome, value) ==
    IF outcome = "fail" THEN "fail" ELSE IF value THEN "true" ELSE "false"

\* execute_movement_command / execute_rotation_command, lines 306-315 / 377-386
MovementEntry(r, flag, pos) ==
    IF ~flag
    THEN [r EXCEPT !.offboard = flag, !.nedPos = pos, !.pc = "i_armed"]
    ELSE [r EXCEPT !.offboard = flag, !.nedPos = pos, !.pc = "m_yaw"]

\* the armed check of execute_command ended
ArmedRead(t, outcome) ==
    /\ CanResume(t)
    /\ task[t].pc = "w_armed"
    /\ LET isArmed == check_armed_state(outcome)
           r == [task[t] EXCEPT !.isArmed = ReadResult(outcome, vehArmed)]
       IN  IF ~isArmed THEN Step(t, Returned(r, "None"))
           ELSE IF cmdType(r) = "TAKEOFF" THEN Step(t, [r EXCEPT !.pc = "w_mode"])
           ELSE Step(t, [r EXCEPT !.pc = "w_inair"])
    /\ UNCHANGED <<parseInput, parseResult, conversions, connection, cleanupState>>
    /\ UNCHANGED <<SIM_MODE, commandExecuting, stopRequested, conversionCache,
                   droneInstance, nedPosition, offboard, vehArmed, vehInAir,
                   terminated, ingestRunning>>

\* DISARM goes on to drone.action.disarm() (lines 223-229)
DisarmAllowed(isInAir) == ~isInAir

\* the in-air check of execute_command ended
InAirRead(t, outcome) ==
    /\ CanResume(t)
    /\ task[t].pc = "w_inair"
    /\ LET isInAir == check_in_air(outcome)
           r   == [task[t] EXCEPT !.isInAir = ReadResult(outcome, vehInAir)]
           cmd == cmdType(r)
       IN  IF cmd = "DISARM"
           THEN IF DisarmAllowed(isInAir)
                THEN Step(t, Issue(r, "disarm", <<>>, "w_action"))
                ELSE Step(t, Returned(r, "None"))
           ELSE IF ~isInAir THEN Step(t, Returned(r, "None"))
           ELSE IF cmd \in {"STOP", "RETURN", "LAND"}
                THEN Step(t, Issue(r, ActionOf(cmd), <<>>, "w_action"))
                ELSE Step(t, MovementEntry(r, offboard, nedPosition))
    /\ UNCHANGED <<parseInput, parseResult, conversions, connection, cleanupState>>
    /\ UNCHANGED <<SIM_MODE, commandExecuting, stopRequested, conversionCache,
                   droneInstance, nedPosition, offboard, vehArmed, vehInAir,
                   terminated, ingestRunning>>

\* a takeoff that always uses the default altitude
DefaultAltitudeOnly(distMeters) == 10000

\* lines 242-247: the altitude TAKEOFF sets, 1.0 m when distMeters is None or 0
TakeoffAltitude(distMeters) == IF Truthy(distMeters) THEN distMeters[1] ELSE 10000

\* check_flight_mode of TAKEOFF ended (it never raises); the altitude is set
FlightModeRead(t) ==
    /\ CanResume(t)
    /\ task[t].pc = "w_mode"
    /\ LET r == task[t]
           altitude == TakeoffAltitude(r.distMeters)
       IN  Step(t, Issue(r, "set_takeoff_altitude", <<altitude>>, "w_action"))
    /\ UNCHANGED <<parseInput, parseResult, conversions, connection, cleanupState>>
    /\ UNCHANGED <<SIM_MODE, commandExecuting, stopRequested, conversionCache,
                   droneInstance, nedPosition, offboard, vehArmed, vehInAir,
                   terminated, ingestRunning>>

\* the vehicle after it accepted a call
ArmedAfter(call) ==
    IF call = "arm" THEN TRUE ELSE IF call = "disarm" THEN FALSE ELSE vehArmed

InAirAfter(call) ==
    IF call = "takeoff" THEN TRUE ELSE IF call = "land" THEN FALSE ELSE vehInAir

\* a drone.action call of execute_command ended
ActionDone(t, outcome) ==
    /\ CanResume(t)
    /\ task[t].pc = "w_action"
    /\ LET r    == Ended(task[t], outcome)
           call == r.stepCalls[Len(r.stepCalls)].call
       IN  /\ vehArmed' = IF outcome = "ok" THEN ArmedAfter(call) ELSE vehArmed
           /\ vehInAir' = IF outcome = "ok" THEN InAirAfter(call) ELSE vehInAir
           /\ IF outcome = "ok" /\ call = "set_takeoff_altitude"
              THEN Step(t, Issue(r, "takeoff", <<>>, "w_action"))
              ELSE Step(t, Returned(r, "None"))
    /\ UNCHANGED <<parseInput, parseResult, conversions, connection, cleanupState>>
    /\ UNCHANGED <<SIM_MODE, commandExecuting, stopRequested, conversionCache,
                   droneInstance, nedPosition, offboard, terminated, ingestRunning>>

(***************************************************************************)
(* drone/command.py: _initialize_offboard                                  *)
(***************************************************************************)
\* _initialize_offboard returned: the caller reads the flag and the position again
InitReturned(r, flag, pos) ==
    [r EXCEPT !.offboard = flag, !.nedPos = pos, !.pc = "m_yaw"]

\* the armed check of _initialize_offboard ended
InitArmedRead(t, outcome) ==
    /\ CanResume(t)
    /\ task[t].pc = "i_armed"
    /\ IF check_armed_state(outcome)
       THEN Step(t, [task[t] EXCEPT !.pc = "i_inair"])
       ELSE Step(t, InitReturned(task[t], offboard, nedPosition))
    /\ UNCHANGED <<parseInput, parseResult, conversions, connection, cleanupState>>
    /\ UNCHANGED <<SIM_MODE, commandExecuting, stopRequested, conversionCache,
                   droneInstance, nedPosition, offboard, vehArmed, vehInAir,
                   terminated, ingestRunning>>

\* the in-air check of _initialize_offboard ended
InitInAirRead(t, outcome) ==
    /\ CanResume(t)
    /\ task[t].pc = "i_inair"
    /\ IF check_in_air(outcome)
       THEN Step(t, [task[t] EXCEPT !.pc = "i_mode"])
       ELSE Step(t, InitReturned(task[t], offboard, nedPosition))
    /\ UNCHANGED <<parseInput, parseResult, conversions, connection, cleanupState>>
    /\ UNCHANGED <<SIM_MODE, commandExecuting, stopRequested, conversionCache,
                   droneInstance, nedPosition, offboard, vehArmed, vehInAir,
                   terminated, ingestRunning>>

\* check_flight_mode of _initialize_offboard ended (it never raises)
InitModeRead(t) ==
    /\ CanResume(t)
    /\ task[t].pc = "i_mode"
    /\ Step(t, [task[t] EXCEPT !.pc = "i_yaw"])
    /\ UNCHANGED <<parseInput, parseResult, conversions, connection, cleanupState>>
    /\ UNCHANGED <<SIM_MODE, commandExecuting, stopRequested, conversionCache,
                   droneInstance, nedPosition, offboard, vehArmed, vehInAir,
                   terminated, ingestRunning>>

\* the heading read of _initialize_offboard ended: the heading, 0.0 when it raised
InitYawRead(t, outcome, heading) ==
    /\ CanResume(t)
    /\ task[t].pc = "i_yaw"
    /\ Step(t, [task[t] EXCEPT !.pc = "i_pos",
                               !.yaw = IF outcome = "value" THEN heading ELSE 0])
    /\ UNCHANGED <<parseInput, parseResult, conversions, connection, cleanupState>>
    /\ UNCHANGED <<SIM_MODE, commandExecuting, stopRequested, conversionCache,
                   droneInstance, nedPosition, offboard, vehArmed, vehInAir,
                   terminated, ingestRunning>>

\* the position read of _initialize_offboard ended: the position, the origin when
\* it raised; the position is stored and the synchronising setpoint is issued
InitPosRead(t, outcome, position) ==
    /\ CanResume(t)
    /\ task[t].pc = "i_pos"
    /\ LET nedPos == IF outcome = "value" THEN position ELSE <<0, 0, 0>>
       IN  /\ nedPosition' = nedPos
           /\ Step(t, Issue(task[t], "set_position_ned", <<nedPos, task[t].yaw>>,
                            "i_setpoint"))
    /\ UNCHANGED <<parseInput, parseResult, conversions, connection, cleanupState>>
    /\ UNCHANGED <<SIM_MODE, commandExecuting, stopRequested, conversionCache,
                   droneInstance, offboard, vehArmed, vehInAir, terminated,
                   ingestRunning>>

\* the synchronising setpoint ended
InitSetpointDone(t, outcome) ==
    /\ CanResume(t)
    /\ task[t].pc = "i_setpoint"
    /\ LET r == Ended(task[t], outcome)
       IN  IF outcome = "ok"
           THEN Step(t, Issue(r, "offboard_start", <<>>, "i_start"))
           ELSE Step(t, Returned(r, "None"))
    /\ UNCHANGED <<parseInput, parseResult, conversions, connection, cleanupState>>
    /\ UNCHANGED <<SIM_MODE, commandExecuting, stopRequested, conversionCache,
                   droneInstance, nedPosition, offboard, vehArmed, vehInAir,
                   terminated, ingestRunning>>

\* drone.offboard.start() ended
InitStartDone(t, outcome) ==
    /\ CanResume(t)
    /\ task[t].pc = "i_start"
    /\ LET r == Ended(task[t], outcome)
       IN  IF outcome = "ok"
           THEN /\ offboard' = TRUE
                /\ Step(t, [r EXCEPT !.pc = "i_settle"])
           ELSE /\ UNCHANGED offboard
                /\ Step(t, Returned(r, "None"))
    /\ UNCHANGED <<parseInput, parseResult, conversions, connection, cleanupState>>
    /\ UNCHANGED <<SIM_MODE, commandExecuting, stopRequested, conversionCache,
                   droneInstance, nedPosition, vehArmed, vehInAir, terminated,
                   ingestRunning>>

\* asyncio.sleep(0.8) of _initialize_offboard ended
InitSettleDone(t) ==
    /\ CanResume(t)
    /\ task[t].pc = "i_settle"
    /\ Step(t, InitReturned(task[t], offboard, nedPosition))
    /\ UNCHANGED <<parseInput, parseResult, conversions, connection, cleanupState>>
    /\ UNCHANGED <<SIM_MODE, commandExecuting, stopRequested, conversionCache,
                   droneInstance, nedPosition, offboard, vehArmed, vehInAir,
                   terminated, ingestRunning>>

(***************************************************************************)
(* drone/command.py: execute_movement_command, execute_rotation_command    *)
(***************************************************************************)
\* the distance execute_command passes to execute_movement_command
MoveDistance(distMeters) == IF Truthy(distMeters) THEN distMeters[1] ELSE 1000

\* the angle execute_command passes to execute_rotation_command
RotationAngle(distMeters) == IF Truthy(distMeters) THEN distMeters[1] ELSE 900000

\* the displacement added to nedPos as if the heading were 0
UnrotatedPosition(nedPos, direction, distance, yaw) ==
    LET dirOffset == BASE_DIRECTION_OFFSETS[direction]
    IN  <<nedPos[1] + dirOffset[1] * distance, nedPos[2] + dirOffset[2] * distance,
          nedPos[3] + dirOffset[3] * distance>>

\* lines 339-353: the displacement rotated by yaw, added to nedPos
NewPosition(nedPos, direction, distance, yaw) ==
    LET dirOffset == BASE_DIRECTION_OFFSETS[direction]
        vectorX == dirOffset[1] * distance
        vectorY == dirOffset[2] * distance
        vectorZ == dirOffset[3] * distance
        moveX == vectorX * CosYaw(yaw) - vectorY * SinYaw(yaw)
        moveY == vectorX * SinYaw(yaw) + vectorY * CosYaw(yaw)
        moveZ == vectorZ
    IN  <<nedPos[1] + moveX, nedPos[2] + moveY, nedPos[3] + moveZ>>

\* a rotation that turns right whatever the direction
AlwaysTurnsRight(direction, yaw, angle) == yaw + angle

\* line 399
NewYaw(direction, yaw, angle) == IF direction = "RO_RIGHT" THEN yaw + angle ELSE yaw - angle

\* the heading read ended: the heading, 0.0 when it raised; the setpoint is issued.
\* A position of None makes nedPos[0] raise TypeError, which execute_command logs.
YawRead(t, outcome, heading) ==
    /\ CanResume(t)
    /\ task[t].pc = "m_yaw"
    /\ LET r   == task[t]
           yaw == IF outcome = "value" THEN heading ELSE 0
           cmd == cmdType(r)
       IN  IF r.nedPos = None THEN Step(t, Returned(r, "None"))
           ELSE IF cmd \in MoveCmds
           THEN LET newPos == NewPosition(r.nedPos, cmd, MoveDistance(r.distMeters), yaw)
                IN  Step(t, Issue([r EXCEPT !.newPos = newPos, !.yaw = yaw],
                                  "set_position_ned", <<newPos, yaw>>, "m_setpoint"))
           ELSE LET newYaw == NewYaw(cmd, yaw, RotationAngle(r.distMeters))
                IN  Step(t, Issue([r EXCEPT !.yaw = newYaw],
                                  "set_position_ned", <<r.nedPos, newYaw>>, "m_setpoint"))
    /\ UNCHANGED <<parseInput, parseResult, conversions, connection, cleanupState>>
    /\ UNCHANGED <<SIM_MODE, commandExecuting, stopRequested, conversionCache,
                   droneInstance, nedPosition, offboard, vehArmed, vehInAir,
                   terminated, ingestRunning>>

POLL_COUNT == 10

\* a wait loop that never looks at the stop request
PollIgnoresStop(r) ==
    IF r.pollI = POLL_COUNT
    THEN Returned([r EXCEPT !.waitEnd = "elapsed"], "None")
    ELSE [r EXCEPT !.pc = "m_poll"]

\* a wait loop that answers the stop request by holding the vehicle
PollHoldsOnStop(r) ==
    IF r.pollI = POLL_COUNT
    THEN Returned([r EXCEPT !.waitEnd = "elapsed"], "None")
    ELSE IF stopRequested
    THEN Issue([r EXCEPT !.waitEnd = "stop"], "hold", <<>>, "w_action")
    ELSE [r EXCEPT !.pc = "m_poll"]

\* the top of one iteration of the wait loop (lines 364-368): range(10) is
\* exhausted, or the stop request is seen, or the task sleeps 0.1 s
PollCheck(r) ==
    IF r.pollI = POLL_COUNT
    THEN Returned([r EXCEPT !.waitEnd = "elapsed"], "None")
    ELSE IF stopRequested
    THEN Returned([r EXCEPT !.waitEnd = "stop"], "None")
    ELSE [r EXCEPT !.pc = "m_poll"]

\* the motion setpoint ended; on success the position is stored (movement only)
\* and the wait loop is entered
SetpointDone(t, outcome) ==
    /\ CanResume(t)
    /\ task[t].pc = "m_setpoint"
    /\ LET r == Ended(task[t], outcome)
       IN  IF outcome = "ok"
           THEN /\ nedPosition' = IF cmdType(r) \in MoveCmds THEN r.newPos ELSE nedPosition
                /\ Step(t, PollCheck([r EXCEPT !.pollI = 0]))
           ELSE /\ UNCHANGED nedPosition
                /\ Step(t, Returned(r, "None"))
    /\ UNCHANGED <<parseInput, parseResult, conversions, connection, cleanupState>>
    /\ UNCHANGED <<SIM_MODE, commandExecuting, stopRequested, conversionCache,
                   droneInstance, offboard, vehArmed, vehInAir, terminated,
                   ingestRunning>>

\* asyncio.sleep(0.1) of the wait loop ended
PollWake(t) ==
    /\ CanResume(t)
    /\ task[t].pc = "m_poll"
    /\ Step(t, PollCheck([task[t] EXCEPT !.pollI = @ + 1]))
    /\ UNCHANGED <<parseInput, parseResult, conversions, connection, cleanupState>>
    /\ UNCHANGED <<SIM_MODE, commandExecuting, stopRequested, conversionCache,
                   droneInstance, nedPosition, offboard, vehArmed, vehInAir,
                   terminated, ingestRunning>>

\* wait_for(execute_movement_command / execute_rotation_command, MOVEMENT_TIMEOUT)
\* expired at the suspension point the command is at
MovementTimeout(t) ==
    /\ CanResume(t)
    /\ task[t].pc \in MovementPcs
    /\ LET r == task[t]
           pending == r.stepCalls # <<>> /\ r.stepCalls[Len(r.stepCalls)].status = "pending"
       IN  Step(t, Returned(IF pending THEN Ended(r, "timeout") ELSE r, "None"))
    /\ UNCHANGED <<parseInput, parseResult, conversions, connection, cleanupState>>
    /\ UNCHANGED <<SIM_MODE, commandExecuting, stopRequested, conversionCache,
                   droneInstance, nedPosition, offboard, vehArmed, vehInAir,
                   terminated, ingestRunning>>

(***************************************************************************)
(* main.py: execute_command_chain                                          *)
(***************************************************************************)
\* a finally block that leaves the stop request as it is
FinallyKeepsStop == <<FALSE, stopRequested>>

\* the finally block: the flags after it
FinallyFlags == <<FALSE, FALSE>>

\* lines 168-170 and 181-183: what the chain does on the sentinel, in order
ShutdownSequence == <<"cleanup", "system_shutdown", "SystemExit">>

\* the coroutine of task t ends through its finally block; on the sentinel it has
\* gone through the shutdown sequence first
Finish(t, how) ==
    /\ task' = [task EXCEPT ![t] = [NewTask EXCEPT !.pc = "done", !.how = how,
                                                   !.exitCalls =
                                                       IF how = "shutdown"
                                                       THEN ShutdownSequence ELSE <<>>,
                                                   !.chain = task[t].chain,
                                                   !.i = task[t].i,
                                                   !.started = task[t].started,
                                                   !.returned = task[t].returned]]
    /\ running' = 0
    /\ commandExecuting' = FinallyFlags[1]
    /\ stopRequested' = FinallyFlags[2]

\* the coroutine starts: lines 146-150
StartChain(t) ==
    /\ ~terminated
    /\ running = 0
    /\ ~ingestRunning
    /\ t \in PendingStart
    /\ \A t2 \in PendingStart : t <= t2
    /\ commandExecuting' = TRUE
    /\ stopRequested' = FALSE
    /\ Step(t, [task[t] EXCEPT !.i = 1,
                               !.pc = IF Len(task[t].chain) > 1 THEN "loop" ELSE "exec"])
    /\ UNCHANGED <<parseInput, parseResult, conversions, connection, cleanupState>>
    /\ UNCHANGED <<SIM_MODE, conversionCache, droneInstance, nedPosition, offboard,
                   vehArmed, vehInAir, terminated, ingestRunning>>

\* a loop that does not look at the stop request
InterruptIgnored == FALSE

\* the check before each step of a chain of several commands (line 154)
InterruptSeen == stopRequested

\* top of the for loop: the chain is over, is interrupted, or runs step i
LoopCheck(t) ==
    /\ CanContinue(t)
    /\ task[t].pc = "loop"
    /\ IF task[t].i > Len(task[t].chain) THEN Finish(t, "completed")
       ELSE IF InterruptSeen THEN Finish(t, "interrupted")
       ELSE /\ Step(t, [task[t] EXCEPT !.pc = "exec"])
            /\ UNCHANGED <<commandExecuting, stopRequested>>
    /\ UNCHANGED <<parseInput, parseResult, conversions, connection, cleanupState>>
    /\ UNCHANGED <<SIM_MODE, conversionCache, droneInstance, nedPosition, offboard,
                   vehArmed, vehInAir, terminated, ingestRunning>>

\* a test that takes the None of a failed step for the sentinel
AnyResultEnds(result) == result \in {"SHUTDOWN", "None"}

\* a test that never sees the sentinel
SentinelIgnored(result) == FALSE

\* the test of lines 162 and 175
IsShutdownSignal(result) == result = "SHUTDOWN"

\* a loop that runs the same step again
SameIndex(i) == i

\* enumerate(parsedCommands, 1): the step after step i
NextIndex(i) == i + 1

\* execute_command returned to the chain: the shutdown check of lines 162 / 175.
\* On the sentinel cleanup() runs: cleanup_drone awaits drone.offboard.stop() when
\* offboard mode is active (the task waits at "c_stop"), else nothing is awaited
\* before system_shutdown() and SystemExit. execute_command returns the sentinel
\* only with the cached flag false, so no run from Init takes the first branch.
Ret(t) ==
    /\ CanContinue(t)
    /\ task[t].pc = "ret"
    /\ IF IsShutdownSignal(task[t].result)
       THEN IF offboard /\ ~SIM_MODE
            THEN /\ droneInstance' = <<"System">>
                 /\ Step(t, [task[t] EXCEPT !.pc = "c_stop"])
                 /\ UNCHANGED <<commandExecuting, stopRequested, terminated>>
            ELSE /\ terminated' = TRUE
                 /\ Finish(t, "shutdown")
                 /\ UNCHANGED droneInstance
       ELSE /\ IF Len(task[t].chain) > 1
               THEN /\ Step(t, [task[t] EXCEPT !.i = NextIndex(@), !.pc = "loop"])
                    /\ UNCHANGED <<commandExecuting, stopRequested>>
               ELSE Finish(t, "completed")
            /\ UNCHANGED <<droneInstance, terminated>>
    /\ UNCHANGED <<parseInput, parseResult, conversions, connection, cleanupState>>
    /\ UNCHANGED <<SIM_MODE, conversionCache, nedPosition, offboard, vehArmed,
                   vehInAir, ingestRunning>>

\* the event loop closes after SystemExit: a suspended chain task is cancelled
\* at its suspension point, and CancelledError passes through its finally block
CancelSuspended(t) ==
    /\ terminated
    /\ running = 0
    /\ task[t].pc \in SuspendedPcs
    /\ Finish(t, "cancelled")
    /\ UNCHANGED <<parseInput, parseResult, conversions, connection, cleanupState>>
    /\ UNCHANGED <<SIM_MODE, conversionCache, droneInstance, nedPosition, offboard,
                   vehArmed, vehInAir, terminated, ingestRunning>>

\* ... and a task whose coroutine never ran is cancelled without running it
CancelPending(t) ==
    /\ terminated
    /\ running = 0
    /\ t \in PendingStart
    /\ task' = [task EXCEPT ![t].pc = "done", ![t].how = "never_started"]
    /\ UNCHANGED <<parseInput, parseResult, conversions, connection, cleanupState>>
    /\ UNCHANGED <<SIM_MODE, commandExecuting, stopRequested, conversionCache,
                   droneInstance, nedPosition, offboard, vehArmed, vehInAir,
                   terminated, ingestRunning, running>>

(***************************************************************************)
(* main.py: process_voice_commands                                         *)
(***************************************************************************)
StopWord == <<"s","t","o","p">>

\* lines 108 and 110-111: the utterances that hold 'stop' and whose first parsed
\* command is STOP
StopUtterances ==
    {u \in Utterances : /\ Contains(lower(u), StopWord)
                        /\ Parsed[u] # <<>>
                        /\ Parsed[u][1][1] = <<"STOP">>}

\* a fast path taken whether or not a chain is executing
StopAnyTime(isExecuting, command) == command \in StopUtterances

\* a fast path taken by every utterance that holds 'stop'
AnyStopWord(isExecuting, command) == isExecuting /\ Contains(lower(command), StopWord)

\* lines 108-111: the utterance is an immediate STOP
IsImmediateStop(isExecuting, command) == isExecuting /\ command \in StopUtterances

\* a gate that lets every utterance through
GateOpen(isExecuting) == TRUE

\* line 121: the utterance may start a chain
MayStartChain(isExecuting) == ~isExecuting

\* task objects not used yet
FreeTasks == {t \in TaskIds : task[t].pc = "new" /\ task[t].chain = <<>>}

\* one iteration of the loop that recognised `command` (lines 103-133); the loop
\* goes on to its next iteration without reaching a suspension point. Whether it
\* yields before the next utterance only matters while a spawned task waits to
\* start, so that is what ingestRunning records.
ProcessUtterance(command) ==
    /\ ~terminated
    /\ running = 0
    /\ ingestRunning \/ PendingStart = {}
    /\ LET isExecuting == commandExecuting
       IN  IF IsImmediateStop(isExecuting, command)
           THEN /\ stopRequested' = TRUE
                /\ UNCHANGED task
           ELSE IF MayStartChain(isExecuting) /\ Parsed[command] # <<>>
           THEN /\ FreeTasks # {}
                /\ LET t == CHOOSE t \in FreeTasks : \A t2 \in FreeTasks : t <= t2
                   IN  task' = [task EXCEPT ![t].chain = Parsed[command]]
                /\ UNCHANGED stopRequested
           ELSE UNCHANGED <<stopRequested, task>>
    /\ ingestRunning' = (\E t \in TaskIds : task'[t].pc = "new" /\ task'[t].chain # <<>>)
    /\ UNCHANGED <<parseInput, parseResult, conversions, connection, cleanupState>>
    /\ UNCHANGED <<SIM_MODE, commandExecuting, conversionCache, droneInstance,
                   nedPosition, offboard, vehArmed, vehInAir, terminated, running>>

\* the loop reaches asyncio.sleep (line 83, or 100 after an audio read error)
IngestYield ==
    /\ ~terminated
    /\ ingestRunning
    /\ ingestRunning' = FALSE
    /\ UNCHANGED <<parseInput, parseResult, conversions, connection, cleanupState>>
    /\ UNCHANGED <<SIM_MODE, commandExecuting, stopRequested, conversionCache,
                   droneInstance, nedPosition, offboard, vehArmed, vehInAir,
                   terminated, running, task>>

(***************************************************************************)
(* The program                                                             *)
(***************************************************************************)
Init ==
    /\ SIM_MODE \in BOOLEAN
    /\ commandExecuting = FALSE
    /\ stopRequested = FALSE
    /\ conversionCache = <<>>
    /\ droneInstance = <<"System">>
    /\ nedPosition = None
    /\ offboard = FALSE
    /\ vehArmed \in BOOLEAN
    /\ vehInAir \in BOOLEAN
    /\ vehInAir => vehArmed
    /\ terminated = FALSE
    /\ ingestRunning = FALSE
    /\ running = 0
    /\ task = [t \in TaskIds |-> NewTask]
    /\ parseInput = <<>>
    /\ parseResult = <<>>
    /\ conversions = <<>>
    /\ connection = IdleConnection
    /\ cleanupState = IdleCleanup

Next ==
    \/ \E command \in Utterances : ProcessUtterance(command)
    \/ IngestYield
    \/ \E t \in TaskIds :
        \/ StartChain(t)
        \/ LoopCheck(t)
        \/ ExecEntry(t)
        \/ Ret(t)
        \/ \E outcome \in CallOutcomes :
            \/ OffboardStopDone(t, outcome)
            \/ ActionDone(t, outcome)
            \/ InitSetpointDone(t, outcome)
            \/ InitStartDone(t, outcome)
            \/ SetpointDone(t, outcome)
        \/ \E outcome \in ReadOutcomes :
            \/ ArmedRead(t, outcome)
            \/ InAirRead(t, outcome)
            \/ InitArmedRead(t, outcome)
            \/ InitInAirRead(t, outcome)
            \/ \E heading \in YawChoices :
                \/ InitYawRead(t, outcome, heading)
                \/ YawRead(t, outcome, heading)
            \/ \E position \in PositionChoices : InitPosRead(t, outcome, position)
        \/ FlightModeRead(t)
        \/ InitModeRead(t)
        \/ InitSettleDone(t)
        \/ PollWake(t)
        \/ MovementTimeout(t)
        \/ CancelSuspended(t)
        \/ CancelPending(t)

Spec == Init /\ [][Next]_vars

(***************************************************************************)
(* execute_command_chain run on a given list of commands                   *)
(***************************************************************************)
\* the command types of COMMAND_DICT
CommandTypes == {COMMAND_DICT[k][1] : k \in 1..Len(COMMAND_DICT)}

\* a parsed command without and with a magnitude
Cmd(type) == << <<type>>, None, None >>

CmdWith(type, value, unit) == << <<type>>, <<value>>, <<unit>> >>

\* the lists execute_command_chain is called with
ExecChains ==
    { <<Cmd(c)>> : c \in CommandTypes } \cup
    { <<CmdWith("FORWARD", 5, "feet")>>,
      <<CmdWith("FORWARD", 0, "feet")>>,
      <<CmdWith("RO_RIGHT", 45, "degrees")>>,
      <<CmdWith("TAKEOFF", 5, "feet")>>,
      <<CmdWith("TAKEOFF", 2, "meters")>>,
      << << <<"TAKEOFF">>, <<0>>, None >> >>,
      <<CmdWith("RO_LEFT", 20, "degrees")>>,
      <<Cmd("SHUTDOWN"), Cmd("LAND")>>,
      <<Cmd("LAND"), Cmd("SHUTDOWN"), Cmd("ARM")>> }

\* the process when main.py hands a list to execute_command_chain: no chain is
\* running, the vehicle is in any state, and offboard mode may have been left
\* active (with its position) by an earlier chain
InitExec ==
    /\ SIM_MODE \in BOOLEAN
    /\ commandExecuting = FALSE
    /\ stopRequested = FALSE
    /\ conversionCache = <<>>
    /\ droneInstance = <<"System">>
    /\ offboard \in BOOLEAN
    /\ nedPosition = IF offboard /\ ~SIM_MODE THEN <<0, 0, 0>> ELSE None
    /\ vehArmed \in BOOLEAN
    /\ vehInAir \in BOOLEAN
    /\ vehInAir => vehArmed
    /\ terminated = FALSE
    /\ ingestRunning = FALSE
    /\ running = 0
    /\ \E chain \in ExecChains :
          task = [t \in TaskIds |-> IF t = 1 THEN [NewTask EXCEPT !.chain = chain]
                                    ELSE NewTask]
    /\ parseInput = <<>>
    /\ parseResult = <<>>
    /\ conversions = <<>>
    /\ connection = IdleConnection
    /\ cleanupState = IdleCleanup

\* the steps of execute_command and of the coroutines it awaits, the telemetry
\* reporting a heading of `headings` and a position of `positions`
CommandStepWith(t, headings, positions) ==
    \/ ExecEntry(t)
    \/ \E outcome \in CallOutcomes :
        \/ OffboardStopDone(t, outcome)
        \/ ActionDone(t, outcome)
        \/ InitSetpointDone(t, outcome)
        \/ InitStartDone(t, outcome)
        \/ SetpointDone(t, outcome)
    \/ \E outcome \in ReadOutcomes :
        \/ ArmedRead(t, outcome)
        \/ InAirRead(t, outcome)
        \/ InitArmedRead(t, outcome)
        \/ InitInAirRead(t, outcome)
        \/ \E heading \in headings :
            \/ InitYawRead(t, outcome, heading)
            \/ YawRead(t, outcome, heading)
        \/ \E position \in positions : InitPosRead(t, outcome, position)
    \/ FlightModeRead(t)
    \/ InitModeRead(t)
    \/ InitSettleDone(t)
    \/ PollWake(t)
    \/ MovementTimeout(t)

\* the steps of a chain task
ChainStepWith(t, headings, positions) ==
    \/ StartChain(t)
    \/ LoopCheck(t)
    \/ Ret(t)
    \/ CommandStepWith(t, headings, positions)

\* the steps of the chain tasks
ChainStep(t) == ChainStepWith(t, YawChoices, PositionChoices)

\* the chain runs; the only utterances are stop utterances
NextExec ==
    \/ \E command \in StopUtterances : ProcessUtterance(command)
    \/ IngestYield
    \/ \E t \in TaskIds : ChainStep(t)

SpecExec == InitExec /\ [][NextExec]_vars

\* what asyncio and the timeouts of the code guarantee: a task that is ready runs;
\* a call awaited under asyncio.wait_for ends, by its timeout at the latest; a
\* sleep ends; a movement or rotation is left when MOVEMENT_TIMEOUT expires; the
\* ingestion loop reaches its sleep. The telemetry reads execute_command awaits
\* bare (check_armed_state, check_in_air, check_flight_mode) are under no timeout,
\* so nothing makes them end.
Fairness ==
    /\ WF_vars(IngestYield)
    /\ \A t \in TaskIds :
        /\ WF_vars(StartChain(t))
        /\ WF_vars(LoopCheck(t))
        /\ WF_vars(ExecEntry(t))
        /\ WF_vars(Ret(t))
        /\ WF_vars(\E outcome \in CallOutcomes : OffboardStopDone(t, outcome))
        /\ WF_vars(\E outcome \in CallOutcomes : ActionDone(t, outcome))
        /\ WF_vars(MovementTimeout(t))

\* the chain of SpecExec under these guarantees
LiveExec == SpecExec /\ Fairness

(***************************************************************************)
(* parse_commands called on an utterance                                   *)
(***************************************************************************)
\* words of the utterances parse_commands is called with
MaxWords == 3

\* the words utterances are made of: triggers, a separator, number-words, digit
\* sequences, units, and a word of no meaning to the parser
Vocabulary ==
    { <<"f","o","r","w","a","r","d">>,
      <<"u","p">>,
      <<"l","a","n","d">>,
      <<"l","e","f","t">>,
      <<"r","o","t","a","t","e">>,
      <<"t","u","r","n">>,
      <<"t","h","e","n">>,
      <<"t","w","e","n","t","y">>,
      <<"o","n","e">>,
      <<"h","u","n","d","r","e","d">>,
      <<"1","0">>,
      <<"1","0","0">>,
      <<"0">>,
      <<"f","e","e","t">>,
      <<"d","e","g","r","e","e","s">>,
      <<"h","e","l","l","o">> }

\* utterances given in full
ExampleUtterances ==
    { <<"r","o","t","a","t","e"," ","l","e","f","t"," ","t","w","e","n","t","y"," ","d","e","g","r","e","e","s">>,
      <<"t","u","r","n"," ","r","i","g","h","t">>,
      <<"r","o","t","a","t","e"," ","r","i","g","h","t"," ","9","0"," ","d","e","g","r","e","e","s">>,
      <<"f","o","r","w","a","r","d"," ","1","0"," ","f","e","e","t"," ","t","h","e","n"," ","l","a","n","d">>,
      <<"f","o","r","w","a","r","d"," ","t","h","e","n"," ","h","e","l","l","o"," ","t","h","e","n"," ","l","a","n","d">>,
      <<"F","o","r","w","a","r","d"," ","1","0"," ","F","e","e","t",","," ","L","A","N","D">>,
      <<"f","o","r","w","a","r","d"," ","g","o"," ","t","w","e","n","t","y"," ","f","e","e","t"," ","o","n","e">>,
      <<" "," "," ">> }

\* words k.. of ws, with one space between them
RECURSIVE JoinWords(_, _)
JoinWords(ws, k) ==
    IF k > Len(ws) THEN <<>>
    ELSE IF k = Len(ws) THEN ws[k]
    ELSE ws[k] \o <<" ">> \o JoinWords(ws, k + 1)

\* the utterances: the empty one, the examples, every trigger phrase of the
\* lexicon alone, and up to MaxWords words
ParseInputs ==
    {<<>>} \cup ExampleUtterances \cup
    {COMMAND_LOOKUP[k][1] : k \in 1..Len(COMMAND_LOOKUP)} \cup
    {JoinWords(ws, 1) : ws \in UNION {[1..n -> Vocabulary] : n \in 1..MaxWords}}

\* parse_commands is about to be called on an utterance; nothing else runs
InitParse ==
    /\ SIM_MODE = FALSE
    /\ commandExecuting = FALSE
    /\ stopRequested = FALSE
    /\ conversionCache = <<>>
    /\ droneInstance = <<"System">>
    /\ nedPosition = None
    /\ offboard = FALSE
    /\ vehArmed = FALSE
    /\ vehInAir = FALSE
    /\ terminated = FALSE
    /\ ingestRunning = FALSE
    /\ running = 0
    /\ task = [t \in TaskIds |-> NewTask]
    /\ parseInput \in ParseInputs
    /\ parseResult = <<>>
    /\ conversions = <<>>
    /\ connection = IdleConnection
    /\ cleanupState = IdleCleanup

\* parse_commands(parseInput) returns
ParseCall ==
    /\ parseResult = <<>>
    /\ parseResult' = <<parse_commands(parseInput)>>
    /\ UNCHANGED <<conversions, connection, cleanupState>>
    /\ UNCHANGED <<parseInput, SIM_MODE, commandExecuting, stopRequested, conversionCache,
                   droneInstance, nedPosition, offboard, vehArmed, vehInAir,
                   terminated, ingestRunning, running, task>>

NextParse == ParseCall

SpecParse == InitParse /\ [][NextParse]_vars

(***************************************************************************)
(* convert_to_meters called with any arguments                             *)
(***************************************************************************)
\* direct calls of convert_to_meters in one run
MaxCalls == 2

\* the largest value convert_to_meters is called with
MaxValue == 11

\* the values of the calls: None and 0..MaxValue
ConvertValues == {None} \cup {<<v>> : v \in 0..MaxValue}

\* the units of the calls: None, the units of CONVERSION_FACTORS, an unknown one
ConvertUnits ==
    {None} \cup {<<CONVERSION_FACTORS[k][1]>> : k \in 1..Len(CONVERSION_FACTORS)}
           \cup {<<"miles">>}

\* the n-th of the keys (1, inches), (1, feet), ..., (MaxValue, degrees)
KeyAt(n) ==
    << ((n - 1) \div Len(CONVERSION_FACTORS)) + 1,
       CONVERSION_FACTORS[((n - 1) % Len(CONVERSION_FACTORS)) + 1][1] >>

\* the cache after convert_to_meters was called with the first n keys, for n up
\* to the capacity of the cache: each call stored its result
Prefilled(n) ==
    IF n = 0 THEN <<>>
    ELSE [k \in {KeyAt(i) : i \in 1..n} |-> k[1] * Factor(k[2])[1]]

\* how many calls came before the run: none, one, one less than the capacity of
\* the cache, and as many as fill it
PrefillSizes == {0, 1, CACHE_CAPACITY - 1, CACHE_CAPACITY}

\* earlier calls have left the cache empty, partly filled or full
InitConvert ==
    /\ SIM_MODE = FALSE
    /\ commandExecuting = FALSE
    /\ stopRequested = FALSE
    /\ \E n \in PrefillSizes : conversionCache = Prefilled(n)
    /\ droneInstance = <<"System">>
    /\ nedPosition = None
    /\ offboard = FALSE
    /\ vehArmed = FALSE
    /\ vehInAir = FALSE
    /\ terminated = FALSE
    /\ ingestRunning = FALSE
    /\ running = 0
    /\ task = [t \in TaskIds |-> NewTask]
    /\ parseInput = <<>>
    /\ parseResult = <<>>
    /\ conversions = <<>>
    /\ connection = IdleConnection
    /\ cleanupState = IdleCleanup

\* convert_to_meters(value, unit) is called and returns
ConvertCall(value, unit) ==
    /\ Len(conversions) < MaxCalls
    /\ conversions' = Append(conversions,
                             [value |-> value, unit |-> unit,
                              result |-> convert_to_meters(conversionCache, value, unit)])
    /\ conversionCache' = CacheAfter(conversionCache, value, unit)
    /\ UNCHANGED <<parseInput, parseResult, connection, cleanupState>>
    /\ UNCHANGED <<SIM_MODE, commandExecuting, stopRequested, droneInstance, nedPosition,
                   offboard, vehArmed, vehInAir, terminated, ingestRunning, running,
                   task>>

NextConvert == \E value \in ConvertValues : \E unit \in ConvertUnits : ConvertCall(value, unit)

SpecConvert == InitConvert /\ [][NextConvert]_vars

(***************************************************************************)
(* drone/connect.py: connect_to_drone                                      *)
(***************************************************************************)
\* config.py, in seconds
MAX_CONNECTION_RETRIES == 3

INITIAL_RETRY_DELAY == 3

RETRY_BACKOFF_MULTIPLIER == 2

\* how `await wait_for(drone.connect(...), CONNECTION_TIMEOUT)` may end
ConnectOutcomes == {"ok", "timeout", "connection_error", "error"}

\* how `await wait_for(wait_for_connection(), CONNECTION_TIMEOUT)` may end:
\* it returned True or False, the wait_for timed out, or the stream raised
WaitOutcomes == {"true", "false", "timeout", "error"}

\* retryDelay stays as it is (a retry loop without backoff)
SameDelay(delay) == delay

\* retryDelay *= RETRY_BACKOFF_MULTIPLIER
NextDelay(delay) == delay * RETRY_BACKOFF_MULTIPLIER

\* the head of the while loop: another attempt while retryCount is under the
\* limit (the loop's exit without a return is never taken: the handler that
\* brings retryCount to the limit raises)
AttemptOrLeave(c) ==
    IF c.retryCount < MAX_CONNECTION_RETRIES
    THEN [c EXCEPT !.pc = "connect", !.attempts = @ + 1]
    ELSE [c EXCEPT !.pc = "returned", !.result = "None"]

\* one of the three except clauses, all alike: count the failure, then either
\* start the sleep of retryDelay seconds or raise ConnectionError
Handler(c, clause) ==
    LET n == c.retryCount + 1
        d == [c EXCEPT !.retryCount = n, !.handlers = Append(@, clause)]
    IN  IF n < MAX_CONNECTION_RETRIES
        THEN [d EXCEPT !.pc = "backoff", !.slept = Append(@, c.retryDelay)]
        ELSE [d EXCEPT !.pc = "raised", !.result = "ConnectionError"]

\* the except clause an outcome of an awaited call lands in
ClauseOf(outcome) ==
    CASE outcome = "timeout"          -> "TimeoutError"
      [] outcome = "connection_error" -> "ConnectionError"
      [] OTHER                        -> "Exception"

\* the call: retryDelay, get_instance(), the SIM_MODE return, the first attempt
ConnectEntry ==
    /\ connection.pc = "idle"
    /\ droneInstance' = <<"System">>
    /\ connection' =
         LET c == [connection EXCEPT !.retryDelay = INITIAL_RETRY_DELAY]
         IN  IF SIM_MODE
             THEN [c EXCEPT !.pc = "returned", !.result = "None"]
             ELSE AttemptOrLeave(c)
    /\ UNCHANGED <<SIM_MODE, commandExecuting, stopRequested, conversionCache,
                   nedPosition, offboard, vehArmed, vehInAir, terminated,
                   ingestRunning, running, task, parseInput, parseResult,
                   conversions, cleanupState>>

ConnectionOnly ==
    UNCHANGED <<SIM_MODE, commandExecuting, stopRequested, conversionCache,
                droneInstance, nedPosition, offboard, vehArmed, vehInAir,
                terminated, ingestRunning, running, task, parseInput, parseResult,
                conversions, cleanupState>>

\* drone.connect() answered
ConnectDone(outcome) ==
    /\ connection.pc = "connect"
    /\ connection' =
         IF outcome = "ok"
         THEN [connection EXCEPT !.pc = "establish"]
         ELSE Handler(connection, ClauseOf(outcome))
    /\ ConnectionOnly

\* the first wait_for_connection() answered
EstablishDone(outcome) ==
    /\ connection.pc = "establish"
    /\ connection' =
         CASE outcome = "true"  -> [connection EXCEPT !.pc = "settle"]
           [] outcome = "false" -> Handler(connection, "ConnectionError")
           [] OTHER             -> Handler(connection, ClauseOf(outcome))
    /\ ConnectionOnly

\* asyncio.sleep(1.0) before the verification
SettleDone ==
    /\ connection.pc = "settle"
    /\ connection' = [connection EXCEPT !.pc = "verify"]
    /\ ConnectionOnly

\* the second wait_for_connection() answered; its timeout is turned into a
\* ConnectionError by the inner except clause
VerifyDone(outcome) ==
    /\ connection.pc = "verify"
    /\ connection' =
         CASE outcome = "true" ->
                [connection EXCEPT !.pc = "returned", !.result = "None",
                                   !.stableAt = connection.attempts]
           [] outcome \in {"false", "timeout"} -> Handler(connection, "ConnectionError")
           [] OTHER -> Handler(connection, "Exception")
    /\ ConnectionOnly

\* the sleep of a handler is over: the delay grows and the loop goes round
BackoffDone ==
    /\ connection.pc = "backoff"
    /\ connection' =
         AttemptOrLeave([connection EXCEPT !.retryDelay = NextDelay(@)])
    /\ ConnectionOnly

InitConnect ==
    /\ SIM_MODE \in BOOLEAN
    /\ commandExecuting = FALSE
    /\ stopRequested = FALSE
    /\ conversionCache = <<>>
    /\ droneInstance = None
    /\ nedPosition = None
    /\ offboard = FALSE
    /\ vehArmed \in BOOLEAN
    /\ vehInAir \in BOOLEAN
    /\ terminated = FALSE
    /\ ingestRunning = FALSE
    /\ running = 0
    /\ task = [t \in TaskIds |-> NewTask]
    /\ parseInput = <<>>
    /\ parseResult = <<>>
    /\ conversions = <<>>
    /\ connection = IdleConnection
    /\ cleanupState = IdleCleanup

NextConnect ==
    \/ ConnectEntry
    \/ \E outcome \in ConnectOutcomes : ConnectDone(outcome)
    \/ \E outcome \in WaitOutcomes : EstablishDone(outcome)
    \/ SettleDone
    \/ \E outcome \in WaitOutcomes : VerifyDone(outcome)
    \/ BackoffDone

SpecConnect == InitConnect /\ [][NextConnect]_vars

\* every await of connect_to_drone is a sleep or sits under wait_for with
\* CONNECTION_TIMEOUT: each one ends
LiveConnect == SpecConnect /\ WF_vars(NextConnect)

(***************************************************************************)
(* drone/connect.py: cleanup_drone                                         *)
(***************************************************************************)
\* calls of cleanup_drone in one run: listen()'s except clauses call cleanup()
\* and main()'s finally block calls it again
MaxCleanupCalls == 2

\* positions the cache may hold when the session ends (meters times 10000)
CleanupPositions == {<<0, 0, 0>>, <<10000, 0, -20000>>, <<0, -30000, -20000>>}

\* the test of line 167
CleanupStopsOffboard(flag) == flag /\ ~SIM_MODE

\* the call: with offboard mode active the stop is awaited under
\* OFFBOARD_TIMEOUT; otherwise the function returns at once
CleanupEntry ==
    /\ cleanupState.pc \in {"idle", "returned"}
    /\ cleanupState.calls < MaxCleanupCalls
    /\ IF CleanupStopsOffboard(offboard)
       THEN /\ droneInstance' = <<"System">>
            /\ cleanupState' = [pc |-> "stop", calls |-> cleanupState.calls + 1,
                                wasOffboard |-> offboard, stop |-> "pending"]
       ELSE /\ cleanupState' = [pc |-> "returned", calls |-> cleanupState.calls + 1,
                                wasOffboard |-> offboard, stop |-> "none"]
            /\ UNCHANGED droneInstance
    /\ UNCHANGED <<SIM_MODE, commandExecuting, stopRequested, conversionCache,
                   nedPosition, offboard, vehArmed, vehInAir, terminated,
                   ingestRunning, running, task, parseInput, parseResult,
                   conversions, connection>>

\* offboard.stop() answered, timed out or raised: the finally clause calls
\* reset_instance() in every case; an error other than the timeout is logged by
\* the outer except clause
CleanupStopDone(outcome) ==
    /\ cleanupState.pc = "stop"
    /\ droneInstance' = None
    /\ nedPosition' = None
    /\ offboard' = FALSE
    /\ cleanupState' = [cleanupState EXCEPT !.pc = "returned", !.stop = outcome]
    /\ UNCHANGED <<SIM_MODE, commandExecuting, stopRequested, conversionCache,
                   vehArmed, vehInAir, terminated, ingestRunning, running, task,
                   parseInput, parseResult, conversions, connection>>

\* the states a session may end in: the flag is only ever set outside SIM_MODE
\* and after a position was cached; a position may outlive the flag; the handle
\* exists from the first get_instance() on
InitCleanup ==
    /\ SIM_MODE \in BOOLEAN
    /\ commandExecuting = FALSE
    /\ stopRequested = FALSE
    /\ conversionCache = <<>>
    /\ offboard \in BOOLEAN
    /\ nedPosition \in {None} \cup CleanupPositions
    /\ droneInstance \in {None, <<"System">>}
    /\ SIM_MODE => ~offboard /\ nedPosition = None
    /\ offboard => nedPosition # None
    /\ droneInstance = None => ~offboard /\ nedPosition = None
    /\ vehArmed \in BOOLEAN
    /\ vehInAir \in BOOLEAN
    /\ terminated = FALSE
    /\ ingestRunning = FALSE
    /\ running = 0
    /\ task = [t \in TaskIds |-> NewTask]
    /\ parseInput = <<>>
    /\ parseResult = <<>>
    /\ conversions = <<>>
    /\ connection = IdleConnection
    /\ cleanupState = IdleCleanup

NextCleanup ==
    \/ CleanupEntry
    \/ \E outcome \in CallOutcomes : CleanupStopDone(outcome)

SpecCleanup == InitCleanup /\ [][NextCleanup]_vars

(***************************************************************************)
(* execute_command_chain run on movement and rotation commands             *)
(***************************************************************************)
\* headings the attitude telemetry may report (degrees times 10000)
MoveHeadings == {0, 900000, 1800000, -900000}

\* positions the position telemetry may report (meters times 10000)
MovePositions == {<<0, 0, 0>>, <<10000, -20000, -30000>>}

\* lists of movement and rotation commands
MoveChains ==
    { <<CmdWith("FORWARD", 5, "feet")>>,
      <<CmdWith("LEFT", 2, "meters")>>,
      <<Cmd("DOWN")>>,
      <<CmdWith("RO_RIGHT", 90, "degrees")>>,
      <<Cmd("RO_LEFT")>>,
      <<CmdWith("BACKWARD", 1, "meters"), CmdWith("UP", 1, "meters")>>,
      <<Cmd("RIGHT"), CmdWith("RO_LEFT", 20, "degrees")>>,
      <<Cmd("STOP"), Cmd("FORWARD")>>,
      <<Cmd("TAKEOFF"), Cmd("RO_RIGHT")>> }

\* the process when a list of movements is handed to execute_command_chain:
\* offboard mode may be active with its cached position, or inactive with no
\* position or with the position an earlier command left behind
InitMove ==
    /\ SIM_MODE = FALSE
    /\ commandExecuting = FALSE
    /\ stopRequested = FALSE
    /\ conversionCache = <<>>
    /\ droneInstance = <<"System">>
    /\ offboard \in BOOLEAN
    /\ nedPosition \in {None} \cup MovePositions
    /\ offboard => nedPosition # None
    /\ vehArmed \in BOOLEAN
    /\ vehInAir \in BOOLEAN
    /\ vehInAir => vehArmed
    /\ terminated = FALSE
    /\ ingestRunning = FALSE
    /\ running = 0
    /\ \E chain \in MoveChains :
          task = [t \in TaskIds |-> IF t = 1 THEN [NewTask EXCEPT !.chain = chain]
                                   ELSE NewTask]
    /\ parseInput = <<>>
    /\ parseResult = <<>>
    /\ conversions = <<>>
    /\ connection = IdleConnection
    /\ cleanupState = IdleCleanup

NextMove ==
    \/ \E command \in StopUtterances : ProcessUtterance(command)
    \/ IngestYield
    \/ \E t \in TaskIds : ChainStepWith(t, MoveHeadings, MovePositions)

SpecMove == InitMove /\ [][NextMove]_vars

(***************************************************************************)
(* execute_command called on one command                                   *)
(***************************************************************************)
\* execute_command(*command) is about to run in task 1, whatever the stop request,
\* the offboard state and the vehicle are
InitCommand ==
    /\ SIM_MODE \in BOOLEAN
    /\ commandExecuting = TRUE
    /\ stopRequested \in BOOLEAN
    /\ conversionCache = <<>>
    /\ droneInstance = <<"System">>
    /\ offboard \in BOOLEAN
    /\ nedPosition = IF offboard /\ ~SIM_MODE THEN <<0, 0, 0>> ELSE None
    /\ vehArmed \in BOOLEAN
    /\ vehInAir \in BOOLEAN
    /\ vehInAir => vehArmed
    /\ terminated = FALSE
    /\ ingestRunning = FALSE
    /\ running = 1
    /\ \E chain \in ExecChains :
          task = [t \in TaskIds |-> IF t = 1
                                   THEN [NewTask EXCEPT !.chain = <<chain[1]>>,
                                                        !.i = 1, !.pc = "exec"]
                                   ELSE NewTask]
    /\ parseInput = <<>>
    /\ parseResult = <<>>
    /\ conversions = <<>>
    /\ connection = IdleConnection
    /\ cleanupState = IdleCleanup

NextCommand == \E t \in TaskIds : CommandStepWith(t, YawChoices, PositionChoices)

SpecCommand == InitCommand /\ [][NextCommand]_vars

(***************************************************************************)
(* Properties of the orchestrator and of execute_command                   *)
(***************************************************************************)
\* task t is between the entry and the exit of execute_command_chain
BetweenEntryAndExit(t) == task[t].pc \notin {"new", "done"}

\* task t is inside execute_command or has just returned from it: stepCalls,
\* isArmed, isInAir and entryOffboard are those of step i
InStep(t) == task[t].pc \in ((SuspendedPcs \cup {"ret"}) \ {"c_stop"})

\* the commands that stop offboard mode first and then issue an action
StopThenActCmds == {"STOP", "RETURN", "LAND", "DISARM"}

\* the actions they issue
ActionCalls == {"hold", "return_to_launch", "land", "disarm"}

\* how a call ends when it does not succeed
FailedStatus == {"timeout", "rejected", "error"}

\* C1: whenever a chain task leaves execute_command_chain (its steps are over, a
\* stop request interrupted it, it shut the process down, or it was cancelled),
\* commandExecuting and stopRequested are both false right after
C1_FlagsClearedOnExit ==
    [][\A t \in TaskIds :
          (BetweenEntryAndExit(t) /\ task'[t].pc = "done")
              => (~commandExecuting' /\ ~stopRequested')]_vars

\* a chain that a stop request interrupted has ended, and both flags are false
C1_Witness ==
    \E t \in TaskIds :
        /\ task[t].pc = "done"
        /\ task[t].how = "interrupted"
        /\ ~commandExecuting
        /\ ~stopRequested

\* C2: at most one chain task is between its entry and its exit at any time
C2_AtMostOneChain == Cardinality({t \in TaskIds : BetweenEntryAndExit(t)}) <= 1

\* C3: no step of a chain of several commands begins while stopRequested is set,
\* and a chain that found it set before step i (i >= 2) has ended with exactly
\* the steps 1..i-1 started
C3_StopEndsChain ==
    \A t \in TaskIds :
        /\ (task[t].pc = "exec" /\ Len(task[t].chain) > 1) => ~stopRequested
        /\ task[t].how = "interrupted" =>
              /\ task[t].pc = "done"
              /\ task[t].i >= 2
              /\ task[t].i <= Len(task[t].chain)
              /\ task[t].started = [k \in 1..(task[t].i - 1) |-> k]

\* a chain of three commands was interrupted before step 2: only step 1 ran
C3_Witness ==
    \E t \in TaskIds :
        /\ task[t].how = "interrupted"
        /\ Len(task[t].chain) = 3
        /\ task[t].started = <<1>>

\* the utterance is STOP-class: it holds "stop" and its first command is STOP
StopClass(command) == command \in StopUtterances

\* C4: an utterance processed while commandExecuting is true spawns no task and
\* changes neither commandExecuting nor the vehicle state nor any chain; unless
\* it is STOP-class it does not change stopRequested either
C4_GateWhileExecuting ==
    [][\A command \in Utterances :
          (commandExecuting /\ ProcessUtterance(command)) =>
              /\ task' = task
              /\ commandExecuting' = commandExecuting
              /\ <<droneInstance', nedPosition', offboard', vehArmed', vehInAir'>>
                    = <<droneInstance, nedPosition, offboard, vehArmed, vehInAir>>
              /\ (~StopClass(command) => stopRequested' = stopRequested)]_vars

\* a chain is suspended in a vehicle call, the loop may process an utterance, and
\* a task could be spawned if the gate let it through
C4_Witness ==
    /\ commandExecuting
    /\ ~terminated
    /\ running = 0
    /\ PendingStart = {}
    /\ FreeTasks # {}
    /\ \E t \in TaskIds : task[t].pc \in SuspendedPcs

\* C5: the steps a chain has started are 1, 2, ..., in that order and once each,
\* and a step is started only when every earlier one has returned
C5_StepsInOrder ==
    \A t \in TaskIds :
        /\ task[t].started = [k \in 1..Len(task[t].started) |-> k]
        /\ Len(task[t].started) <= Len(task[t].chain)
        /\ task[t].returned <= Len(task[t].started)
        /\ Len(task[t].started) <= task[t].returned + 1
        /\ task[t].pc = "exec" =>
              /\ task[t].returned = Len(task[t].started)
              /\ task[t].i = Len(task[t].started) + 1

\* a chain of three commands ran its three steps
C5_Witness ==
    \E t \in TaskIds :
        /\ task[t].started = <<1, 2, 3>>
        /\ task[t].returned = 3

\* the step of record r failed: a vehicle call did not succeed
CallFailed(r) ==
    \E k \in 1..Len(r.stepCalls) : r.stepCalls[k].status \in FailedStatus

\* C6: a step whose vehicle call failed returns None to the chain, and a chain of
\* several commands ends before its last step only when a stop request
\* interrupted it, a SHUTDOWN step ended the process, or it was cancelled
C6_FailureDoesNotEndChain ==
    \A t \in TaskIds :
        /\ (task[t].pc = "ret" /\ CallFailed(task[t])) => task[t].result = "None"
        /\ (task[t].pc = "done" /\ Len(task[t].chain) > 1) =>
              \/ task[t].how = "completed" /\ Len(task[t].started) = Len(task[t].chain)
              \/ task[t].how = "interrupted"
              \/ /\ task[t].how = "shutdown"
                 /\ task[t].chain[Len(task[t].started)][1] = <<"SHUTDOWN">>
              \/ task[t].how \in {"cancelled", "never_started"}

\* step 1 of a chain failed on a timeout and the chain goes on to run step 2
C6_Witness ==
    \E t \in TaskIds :
        /\ task[t].pc = "exec"
        /\ task[t].i = 2
        /\ \E k \in 1..Len(task[t].stepCalls) : task[t].stepCalls[k].status = "timeout"

\* C7: with SIM_MODE false, a DISARM step issues no vehicle call while the
\* vehicle is airborne
C7_AirborneDisarmIssuesNothing ==
    \A t \in TaskIds :
        (InStep(t) /\ ~SIM_MODE /\ cmdType(task[t]) = "DISARM") =>
            \A k \in 1..Len(task[t].stepCalls) : ~task[t].stepCalls[k].inAir

\* the step of task t began with offboard.stop(), which timed out
StopTimedOut(t) ==
    /\ task[t].pc = "ret"
    /\ ~SIM_MODE
    /\ task[t].stepCalls # <<>>
    /\ task[t].stepCalls[1].call = "offboard_stop"
    /\ task[t].stepCalls[1].status = "timeout"

\* C8: when the offboard stop of a command timed out, the command returns None
\* with the cached offboard flag false and with no other call issued
C8_StopTimeoutClearsFlag ==
    \A t \in TaskIds :
        StopTimedOut(t) =>
            /\ ~offboard
            /\ Len(task[t].stepCalls) = 1
            /\ task[t].result = "None"

\* the offboard stop of a LAND step timed out
C8_Witness ==
    \E t \in TaskIds : StopTimedOut(t) /\ cmdType(task[t]) = "LAND"

\* C9: with SIM_MODE false, when STOP, RETURN, LAND or DISARM finds the offboard
\* flag true, its action is issued only after offboard.stop() succeeded and left
\* the flag false
C9_ActionAfterStop ==
    \A t \in TaskIds :
        (InStep(t) /\ ~SIM_MODE /\ task[t].entryOffboard
                   /\ cmdType(task[t]) \in StopThenActCmds) =>
            \A k \in 1..Len(task[t].stepCalls) :
                task[t].stepCalls[k].call \in ActionCalls =>
                    /\ k > 1
                    /\ task[t].stepCalls[1].call = "offboard_stop"
                    /\ task[t].stepCalls[1].status = "ok"
                    /\ ~task[t].stepCalls[1].flag

\* LAND found the offboard flag true and has issued land
C9_Witness ==
    \E t \in TaskIds :
        /\ InStep(t)
        /\ ~SIM_MODE
        /\ task[t].entryOffboard
        /\ cmdType(task[t]) = "LAND"
        /\ \E k \in 1..Len(task[t].stepCalls) : task[t].stepCalls[k].call = "land"

\* C10: with SIM_MODE false, hold, return_to_launch and land are issued only in
\* an execution whose armed read and in-air read both returned true
C10_ActionNeedsArmedAndAirborne ==
    \A t \in TaskIds :
        (InStep(t) /\ ~SIM_MODE) =>
            \A k \in 1..Len(task[t].stepCalls) :
                task[t].stepCalls[k].call \in {"hold", "return_to_launch", "land"} =>
                    /\ task[t].isArmed = "true"
                    /\ task[t].isInAir = "true"

\* RETURN has issued return_to_launch
C10_Witness ==
    \E t \in TaskIds :
        /\ InStep(t)
        /\ ~SIM_MODE
        /\ \E k \in 1..Len(task[t].stepCalls) :
              task[t].stepCalls[k].call = "return_to_launch"

(***************************************************************************)
(* Properties of execute_command run on a given list                       *)
(***************************************************************************)
\* the calls that move the vehicle under offboard control
MotionCalls == {"set_position_ned", "offboard_start"}

\* the step task t is in has issued call
HasIssued(t, call) ==
    \E k \in 1..Len(task[t].stepCalls) : task[t].stepCalls[k].call = call

\* C11: with SIM_MODE false, a translational or rotational command issues no
\* position setpoint and no offboard start unless, in that execution of
\* execute_command, the armed read and the in-air read both returned true.
C11_MotionNeedsArmedAndAirborne ==
    \A t \in TaskIds :
        (/\ InStep(t)
         /\ ~SIM_MODE
         /\ cmdType(task[t]) \in MoveCmds \cup RotCmds
         /\ \E call \in MotionCalls : HasIssued(t, call))
        => (task[t].isArmed = "true" /\ task[t].isInAir = "true")

\* a rotation started offboard mode and then issued its setpoint
C11_Witness ==
    \E t \in TaskIds :
        /\ InStep(t)
        /\ ~SIM_MODE
        /\ cmdType(task[t]) \in RotCmds
        /\ HasIssued(t, "offboard_start")
        /\ task[t].pc = "m_setpoint"

\* the altitude the claim expects of the TAKEOFF step task t is in: the magnitude
\* times the factor of its unit, 1.0 m without a magnitude (a magnitude of 0
\* counts as none)
ExpectedAltitude(t) ==
    LET value == distVal(task[t])
        unit  == distType(task[t])
    IN  IF value # None /\ value[1] # 0 /\ unit # None
        THEN value[1] * Factor(unit[1])[1]
        ELSE 10000

C13_ShutdownAlwaysSignals ==
    \A t \in TaskIds :
        task[t].pc = "ret"
        => (task[t].result = "SHUTDOWN" <=> cmdType(task[t]) = "SHUTDOWN")

(***************************************************************************)
(* Properties of the shutdown path                                         *)
(***************************************************************************)
\* C14: when a step of a chain returns the Shutdown sentinel, the chain goes
\* through cleanup, system shutdown and SystemExit, in that order, as the very next
\* thing it does: no remaining step of the chain is started, and once SystemExit
\* was raised no task starts a step or issues a vehicle call.
C14_SentinelEndsProcess ==
    /\ [](\A t \in TaskIds :
            /\ task[t].result = "SHUTDOWN" => (task[t].pc = "ret" /\ running = t)
            /\ task[t].how = "shutdown"
               => /\ terminated
                  /\ task[t].pc = "done"
                  /\ task[t].exitCalls = <<"cleanup", "system_shutdown", "SystemExit">>
                  /\ task[t].started = [k \in 1..task[t].i |-> k]
                  /\ task[t].chain[task[t].i][1] = <<"SHUTDOWN">>
            /\ task[t].how # "shutdown" => task[t].exitCalls = <<>>)
    /\ [](terminated => \E t \in TaskIds : task[t].how = "shutdown")
    /\ [][terminated
          => \A t \in TaskIds :
                /\ task'[t].started = task[t].started
                /\ task'[t].stepCalls \in {task[t].stepCalls, <<>>}]_vars

\* the sentinel came from a step that was not the last of its chain, and another
\* chain was cancelled at a suspension point
C14_Witness ==
    \E t \in TaskIds :
        /\ task[t].how = "shutdown"
        /\ task[t].i < Len(task[t].chain)
        /\ \E t2 \in TaskIds : task[t2].how = "cancelled"

(***************************************************************************)
(* Progress of a chain                                                     *)
(***************************************************************************)
\* C15: every chain that started eventually finishes (commandExecuting becomes
\* false again), even when a vehicle call or a telemetry read never answers.
C15_ChainEventuallyFinishes == commandExecuting ~> ~commandExecuting

(***************************************************************************)
(* Properties of parse_commands                                            *)
(***************************************************************************)
\* the fragments the separators cut the utterance into
Fragments(input) == IF input = <<>> THEN <<>> ELSE SEPARATOR_split(lower(input))

\* fragment f contains a trigger of the lexicon
HasTrigger(f) == \E k \in 1..Len(COMMAND_LOOKUP) : Contains(f, COMMAND_LOOKUP[k][1])

\* the fragments that contain a trigger, in the order of the utterance
TriggerFragments(input) == SelectSeq(Fragments(input), HasTrigger)

\* what is left of fragment f once its trigger is taken out
Remainder(f) ==
    LET cmd == strip(f)
    IN  strip(RemoveFirst(cmd, COMMAND_LOOKUP[FirstTrigger(cmd)][1]))

HasDigit(s) == \E i \in 1..Len(s) : IsDigit(s[i])

\* C16: for an utterance none of whose fragments contains a trigger of the
\* lexicon, the empty utterance included, parse_commands returns the empty list.
C16_NoTriggerNoCommand ==
    (/\ parseResult # <<>>
     /\ \A j \in 1..Len(Fragments(parseInput)) : ~HasTrigger(Fragments(parseInput)[j]))
    => parseResult[1] = <<>>

\* an utterance of several fragments, none with a trigger, was parsed
C16_Witness ==
    /\ parseResult = << <<>> >>
    /\ Len(Fragments(parseInput)) >= 2
    /\ \A j \in 1..Len(Fragments(parseInput)) : ~HasTrigger(Fragments(parseInput)[j])

RotateLeftTriggers == {<<"r","o","t","a","t","e"," ","l","e","f","t">>, <<"t","u","r","n"," ","l","e","f","t">>}

RotateRightTriggers == {<<"r","o","t","a","t","e"," ","r","i","g","h","t">>, <<"t","u","r","n"," ","r","i","g","h","t">>}

\* C17: an utterance of one fragment that contains "rotate left" or "turn left"
\* parses to one command of the rotate-left type, and likewise for right, with
\* magnitude and unit taken from the rest: "rotate left twenty degrees" gives
\* (RO_LEFT, 20, degrees).
C17_RotateTriggers ==
    (parseResult # <<>> /\ Len(Fragments(parseInput)) = 1)
    => LET f == Fragments(parseInput)[1]
           result == parseResult[1]
       IN  /\ (\E w \in RotateLeftTriggers : Contains(f, w))
              => (Len(result) = 1 /\ result[1][1] = <<"RO_LEFT">>)
           /\ (\E w \in RotateRightTriggers : Contains(f, w))
              => (Len(result) = 1 /\ result[1][1] = <<"RO_RIGHT">>)
           /\ parseInput = <<"r","o","t","a","t","e"," ","l","e","f","t"," ","t","w","e","n","t","y"," ","d","e","g","r","e","e","s">>
              => result = << << <<"RO_LEFT">>, <<20>>, <<"degrees">> >> >>

\* C18: parse_commands returns exactly one command for each fragment that contains
\* a trigger, in the order of the fragments; a fragment without a trigger adds
\* nothing and changes no other fragment's command. "forward 10 feet then land"
\* gives [(FORWARD, 10, feet), (LAND, None, None)].
C18_OneCommandPerFragment ==
    parseResult # <<>>
    => LET result == parseResult[1]
           withTrigger == TriggerFragments(parseInput)
       IN  /\ Len(result) = Len(withTrigger)
           /\ \A j \in 1..Len(withTrigger) : result[j] = get_command(strip(withTrigger[j]))
           /\ parseInput = <<"f","o","r","w","a","r","d"," ","1","0"," ","f","e","e","t"," ","t","h","e","n"," ","l","a","n","d">>
              => result = << << <<"FORWARD">>, <<10>>, <<"feet">> >>,
                             << <<"LAND">>, None, None >> >>

\* an utterance of three fragments, the middle one without a trigger, was parsed
C18_Witness ==
    /\ parseResult # <<>>
    /\ Len(Fragments(parseInput)) = 3
    /\ ~HasTrigger(Fragments(parseInput)[2])
    /\ Len(parseResult[1]) = 2

Hundred == <<"h","u","n","d","r","e","d">>

\* the scan of the claim over tokens: <<total, stopped>> after the first k tokens
ScanTokens(tokens) ==
    LET scan[k \in 0..Len(tokens)] ==
            IF k = 0 THEN <<0, FALSE>>
            ELSE LET before == scan[k - 1]
                     word   == tokens[k]
                 IN  IF before[2] THEN before
                     ELSE IF word = Hundred THEN <<before[1] * 100, FALSE>>
                     ELSE IF InNumDict(word) THEN <<before[1] + NumValue(word), FALSE>>
                     ELSE IF before[1] # 0 THEN <<before[1], TRUE>>
                     ELSE before
    IN  scan[Len(tokens)][1]

\* C19: when what is left of a fragment holds no digit, its tokens are scanned
\* from the left: a number-word adds its value, "hundred" multiplies the running
\* total by 100, tokens that are no number-words are skipped before the first
\* number-word, and the scan stops at the first such token once the total is not
\* zero; that total is the magnitude. "twenty one" gives 21, "one hundred" 100.
C19_WordNumbers ==
    parseResult # <<>>
    => LET result == parseResult[1]
           withTrigger == TriggerFragments(parseInput)
       IN  /\ \A j \in 1..Len(withTrigger) :
                LET rest  == Remainder(withTrigger[j])
                    total == ScanTokens(SplitWords(rest, 1, <<>>))
                IN  (~HasDigit(rest) /\ total > 0) => result[j][2] = <<total>>
           /\ parseInput = <<"f","o","r","w","a","r","d"," ","t","w","e","n","t","y"," ","o","n","e">>
              => result[1][2] = <<21>>
           /\ parseInput = <<"u","p"," ","o","n","e"," ","h","u","n","d","r","e","d">>
              => result[1][2] = <<100>>

\* a scan skipped a token before the first number-word and stopped at the token
\* after it: "forward go twenty feet one" has the magnitude 20
C19_Witness ==
    /\ parseInput = <<"f","o","r","w","a","r","d"," ","g","o"," ","t","w","e","n","t","y"," ","f","e","e","t"," ","o","n","e">>
    /\ parseResult = << << << <<"FORWARD">>, <<20>>, <<"feet">> >> >> >>

\* C20: when what is left of a fragment holds a digit sequence, the magnitude is
\* the first digit sequence, whatever number-words there are; and every parsed
\* command whose magnitude is not None has a unit that is not None. "up 100" gives
\* (UP, 100, meters).
C20_DigitsFirstAndUnit ==
    parseResult # <<>>
    => LET result == parseResult[1]
           withTrigger == TriggerFragments(parseInput)
       IN  /\ \A j \in 1..Len(withTrigger) :
                LET rest == Remainder(withTrigger[j])
                IN  HasDigit(rest) => result[j][2] = <<DecimalValue(DigitMatch(rest), 1, 0)>>
           /\ \A j \in 1..Len(result) : result[j][2] # None => result[j][3] # None
           /\ parseInput = <<"u","p"," ","1","0","0">>
              => result = << << <<"UP">>, <<100>>, <<"meters">> >> >>

\* C21: parse_commands never returns a command whose magnitude is 0: a magnitude
\* of 0, from the digit path ("forward 0") or from the word-number path, is
\* reported as None.
C21_NoZeroMagnitude ==
    parseResult # <<>>
    => \A j \in 1..Len(parseResult[1]) : parseResult[1][j][2] # <<0>>

(***************************************************************************)
(* Properties of convert_to_meters                                         *)
(***************************************************************************)
CacheSize == Cardinality(DOMAIN conversionCache)

\* C22: after any sequence of convert_to_meters calls the conversion cache holds
\* at most 50 entries, and once it holds 50 entries a call adds, replaces and
\* evicts nothing.
C22_CacheBounded ==
    /\ [](CacheSize <= 50)
    /\ [][CacheSize = 50 => conversionCache' = conversionCache]_vars

\* with the cache full, a call converted a value whose key is not in the cache
C22_Witness ==
    /\ CacheSize = 50
    /\ \E i \in 1..Len(conversions) :
          /\ conversions[i].result # None
          /\ <<conversions[i].value[1], conversions[i].unit[1]>> \notin DOMAIN conversionCache

\* value times the factor of unit, for a value that is a number and a unit of
\* CONVERSION_FACTORS
Product(value, unit) == <<value[1] * Factor(unit[1])[1]>>

Convertible(value, unit) ==
    value # None /\ unit # None /\ Factor(unit[1]) # None

\* C23 as stated: with any cache content, convert_to_meters(value, unit) returns
\* value times CONVERSION_FACTORS[unit] for every value and unit.
C23_AlwaysTheProduct ==
    \A i \in 1..Len(conversions) :
        Convertible(conversions[i].value, conversions[i].unit)
        => conversions[i].result = Product(conversions[i].value, conversions[i].unit)

\* C23: with any cache content (empty, partly filled, full),
\* convert_to_meters(value, unit) returns value times CONVERSION_FACTORS[unit]
\* for every value other than 0 and every unit of CONVERSION_FACTORS, and None
\* for the value 0 or None and for a unit that is None or unknown: what a
\* cache-free implementation returns. So two calls with the same arguments
\* return the identical value.
C23_CacheTransparent ==
    /\ \A i \in 1..Len(conversions) :
          conversions[i].result =
              IF /\ Convertible(conversions[i].value, conversions[i].unit)
                 /\ conversions[i].value[1] # 0
              THEN Product(conversions[i].value, conversions[i].unit)
              ELSE None
    /\ \A i, j \in 1..Len(conversions) :
          (/\ conversions[i].value = conversions[j].value
           /\ conversions[i].unit = conversions[j].unit)
          => conversions[i].result = conversions[j].result

\* the same arguments were converted twice, the second time from the cache
C23_Witness ==
    /\ Len(conversions) = 2
    /\ conversions[1].value = conversions[2].value
    /\ conversions[1].unit = conversions[2].unit
    /\ conversions[2].result # None
    /\ <<conversions[2].value[1], conversions[2].unit[1]>> \in DOMAIN conversionCache

(***************************************************************************)
(* Properties of connect_to_drone                                          *)
(***************************************************************************)
RECURSIVE Power(_, _)
Power(base, exponent) == IF exponent = 0 THEN 1 ELSE base * Power(base, exponent - 1)

\* the delays slept after failed attempts 1..n
ExpectedDelays(n) ==
    [k \in 1..n |-> INITIAL_RETRY_DELAY * Power(RETRY_BACKOFF_MULTIPLIER, k - 1)]

ConnectEnded == connection.pc \in {"returned", "raised"}

\* C24: with SIM_MODE false, connect_to_drone ends after at most
\* MAX_CONNECTION_RETRIES (3) attempts: it returns after the first attempt that was
\* established and verified stable and makes no further attempt; after the third
\* failed attempt, whatever the except clause, it raises ConnectionError; after failed
\* attempt k < 3 it sleeps INITIAL_RETRY_DELAY * RETRY_BACKOFF_MULTIPLIER^(k-1)
\* seconds (3, then 6) and after the last failed attempt it does not sleep.
C24_ConnectTerminates ==
    /\ [](~SIM_MODE =>
            /\ connection.attempts <= MAX_CONNECTION_RETRIES
            /\ connection.retryCount = Len(connection.handlers)
            /\ connection.pc # "idle"
               => connection.attempts =
                    IF connection.pc \in {"backoff", "raised"}
                    THEN connection.retryCount ELSE connection.retryCount + 1
            /\ connection.stableAt # 0
               => connection.pc = "returned" /\ connection.attempts = connection.stableAt
            /\ connection.pc = "returned"
               => connection.stableAt = connection.attempts /\ connection.attempts >= 1
            /\ connection.pc = "raised" <=> connection.retryCount = MAX_CONNECTION_RETRIES
            /\ connection.pc = "raised"
               => /\ connection.result = "ConnectionError"
                  /\ connection.slept = <<3, 6>>
            /\ connection.slept =
                 ExpectedDelays(IF connection.retryCount < MAX_CONNECTION_RETRIES
                                THEN connection.retryCount
                                ELSE MAX_CONNECTION_RETRIES - 1))
    /\ <>(ConnectEnded)

\* three attempts failed, one in each except clause, and ConnectionError left
\* the function
C24_Witness ==
    /\ ~SIM_MODE
    /\ connection.pc = "raised"
    /\ connection.handlers = <<"TimeoutError", "ConnectionError", "Exception">>

(***************************************************************************)
(* Properties of cleanup_drone                                             *)
(***************************************************************************)
Released == droneInstance = None /\ nedPosition = None /\ offboard = FALSE

\* C25: after cleanup_drone returns the vehicle state is reset (handle empty,
\* position None, offboard false) whether or not offboard mode was active; when it
\* was active, offboard.stop() was attempted first, and its timeout or error does
\* not prevent the release.
C25_CleanupReleases ==
    cleanupState.pc = "returned"
    => /\ Released
       /\ cleanupState.wasOffboard => cleanupState.stop \in CallOutcomes

\* what does hold: the release happens exactly on the path that awaited the stop,
\* whatever the stop's outcome
C25_ReleasedAfterStop ==
    /\ cleanupState.pc = "returned" /\ cleanupState.stop \in CallOutcomes => Released
    /\ cleanupState.pc = "returned" /\ cleanupState.calls = 1 /\ cleanupState.wasOffboard
       => cleanupState.stop \in CallOutcomes

C25_StopFailedStillReleased ==
    /\ cleanupState.pc = "returned"
    /\ cleanupState.stop \in {"timeout", "error"}
    /\ Released

(***************************************************************************)
(* Properties of execute_movement_command and execute_rotation_command     *)
(***************************************************************************)
\* the call task t awaits, or awaited last, in the step it is in
LastCall(r) == r.stepCalls[Len(r.stepCalls)]

\* task t was waiting for the answer to its movement setpoint
AtMoveSetpoint(t) == task[t].pc = "m_setpoint" /\ cmdType(task[t]) \in MoveCmds

\* unit vectors <<north, east>> of "ahead" and of "to the right" at a heading
Ahead(yaw) ==
    CASE yaw = 0       -> <<1, 0>>
      [] yaw = 900000  -> <<0, 1>>
      [] yaw = 1800000 -> <<-1, 0>>
      [] yaw = -900000 -> <<0, -1>>

ToTheRight(yaw) ==
    CASE yaw = 0       -> <<0, 1>>
      [] yaw = 900000  -> <<-1, 0>>
      [] yaw = 1800000 -> <<0, -1>>
      [] yaw = -900000 -> <<1, 0>>

\* the place `distance` away from pos in `direction`, seen from heading yaw
Displaced(pos, direction, distance, yaw) ==
    CASE direction = "FORWARD"  -> <<pos[1] + distance * Ahead(yaw)[1],
                                     pos[2] + distance * Ahead(yaw)[2], pos[3]>>
      [] direction = "BACKWARD" -> <<pos[1] - distance * Ahead(yaw)[1],
                                     pos[2] - distance * Ahead(yaw)[2], pos[3]>>
      [] direction = "RIGHT"    -> <<pos[1] + distance * ToTheRight(yaw)[1],
                                     pos[2] + distance * ToTheRight(yaw)[2], pos[3]>>
      [] direction = "LEFT"     -> <<pos[1] - distance * ToTheRight(yaw)[1],
                                     pos[2] - distance * ToTheRight(yaw)[2], pos[3]>>
      [] direction = "UP"       -> <<pos[1], pos[2], pos[3] - distance>>
      [] direction = "DOWN"     -> <<pos[1], pos[2], pos[3] + distance>>

\* the distance of the step task t is in: the converted magnitude, 0.1 m without one
StepDistance(r) ==
    IF distVal(r) = None THEN 1000
    ELSE distVal(r)[1] * (IF distType(r) = <<"feet">> THEN 3048 ELSE 10000)

\* C26: execute_movement_command stores (position used + yaw-rotated displacement)
\* as the cached position only once set_position_ned for that position has returned
\* successfully; when the call times out or raises, the cached position stays at
\* the position the setpoint was computed from; the down component of the
\* displacement does not depend on the heading.
C26_PositionOnlyAfterSetpoint ==
    [][\A t \in TaskIds :
         AtMoveSetpoint(t)
         => LET r == task[t]
                target == Displaced(r.nedPos, cmdType(r), StepDistance(r), r.yaw)
            IN  /\ nedPosition = r.nedPos
                /\ LastCall(r).arg = <<target, r.yaw>>
                /\ target[3] = Displaced(r.nedPos, cmdType(r), StepDistance(r), 0)[3]
                /\ nedPosition' = IF LastCall(task'[t]).status = "ok"
                                  THEN target ELSE r.nedPos]_vars

\* a movement at heading 90 degrees away from a position other than the origin
\* succeeded, and the cached position is the displaced one
C26_Witness ==
    \E t \in TaskIds :
        /\ task[t].pc = "m_poll"
        /\ cmdType(task[t]) = "LEFT"
        /\ task[t].yaw = 900000
        /\ task[t].nedPos = <<10000, -20000, -30000>>
        /\ nedPosition = <<30000, -20000, -30000>>

\* C27: after a movement or rotation setpoint succeeded the step looks at
\* stopRequested at most 10 times, once per polling increment; when it sees the
\* request it returns at that check, leaving the cached position and the offboard
\* flag as they are; when it never sees it, it returns after the 10th increment; so
\* once stopRequested is set during the wait the step ends within one increment.
C27_StopPolledDuringWait ==
    [][\A t \in TaskIds :
         LET r == task[t]
             q == task'[t]
         IN  /\ q.pc = "m_poll" /\ q # r
                => /\ ~stopRequested
                   /\ q.pollI < POLL_COUNT
                   /\ \/ r.pc = "m_setpoint" /\ LastCall(q).status = "ok" /\ q.pollI = 0
                      \/ r.pc = "m_poll" /\ q.pollI = r.pollI + 1
             /\ r.pc = "m_poll" /\ stopRequested /\ q # r
                => /\ q.pc = "ret"
                   /\ nedPosition' = nedPosition
                   /\ offboard' = offboard
             /\ q.waitEnd = "stop" /\ r.waitEnd = "none"
                => /\ stopRequested
                   /\ r.pc \in {"m_setpoint", "m_poll"}
                   /\ r.pc = "m_poll" => nedPosition' = nedPosition
                   /\ offboard' = offboard
                   /\ q.pc = "ret"
             /\ q.waitEnd = "elapsed" /\ r.waitEnd = "none"
                => /\ r.pc = "m_poll"
                   /\ r.pollI = POLL_COUNT - 1
                   /\ q.pc = "ret"
                   /\ nedPosition' = nedPosition
                   /\ offboard' = offboard]_vars

\* a rotation saw the stop request in its wait loop and returned
C27_Witness ==
    \E t \in TaskIds :
        /\ task[t].pc = "ret"
        /\ task[t].waitEnd = "stop"
        /\ cmdType(task[t]) \in RotCmds
        /\ offboard

\* task t was waiting for the answer to its rotation setpoint
AtRotationSetpoint(t) == task[t].pc = "m_setpoint" /\ cmdType(task[t]) \in RotCmds

\* the angle of the step task t is in: the magnitude, 90 degrees without one
StepAngle(r) == IF distVal(r) = None THEN 900000 ELSE distVal(r)[1] * 10000

\* C28: execute_rotation_command issues one setpoint, at the cached position, with
\* yaw = heading + angle for RO_RIGHT and heading - angle for RO_LEFT, the heading
\* being 0 when it could not be read; it never changes the cached position.
C28_RotationKeepsPosition ==
    /\ [](\A t \in TaskIds :
            AtRotationSetpoint(t)
            => LET r == task[t]
                   motion == {k \in 1..Len(r.stepCalls) :
                                /\ r.stepCalls[k].call = "set_position_ned"
                                /\ k = Len(r.stepCalls) \/ r.stepCalls[k + 1].call # "offboard_start"}
               IN  /\ motion = {Len(r.stepCalls)}
                   /\ LastCall(r).arg[1] = nedPosition
                   /\ \E heading \in MoveHeadings \cup {0} :
                        LastCall(r).arg[2] = IF cmdType(r) = "RO_RIGHT"
                                             THEN heading + StepAngle(r)
                                             ELSE heading - StepAngle(r))
    /\ [][\A t \in TaskIds :
            task[t].pc \in {"m_yaw", "m_setpoint", "m_poll"} /\ cmdType(task[t]) \in RotCmds
            => /\ nedPosition' = nedPosition
               /\ \A heading \in MoveHeadings, outcome \in ReadOutcomes :
                    YawRead(t, outcome, heading) /\ task'[t].pc = "m_setpoint"
                    => LastCall(task'[t]).arg[2] =
                         (IF outcome = "value" THEN heading ELSE 0)
                         + (IF cmdType(task[t]) = "RO_RIGHT"
                            THEN StepAngle(task[t]) ELSE 0 - StepAngle(task[t]))]_vars

\* a left rotation of 20 degrees from heading 90 at a position off the origin
C28_Witness ==
    \E t \in TaskIds :
        /\ AtRotationSetpoint(t)
        /\ cmdType(task[t]) = "RO_LEFT"
        /\ LastCall(task[t]).arg = << <<10000, -20000, -30000>>, 700000 >>

(***************************************************************************)
(* Properties of _initialize_offboard                                      *)
(***************************************************************************)
\* the suspension points of _initialize_offboard past its two checks
PastInitChecks == {"i_mode", "i_yaw", "i_pos", "i_setpoint", "i_start", "i_settle"}

\* C29: _initialize_offboard calls offboard.start() only after it found the vehicle
\* armed and airborne and after a setpoint at the current pose was accepted; the
\* offboard flag becomes true only after offboard.start() succeeded, so a timeout
\* or rejection of the setpoint or of the start leaves it false; a failed heading
\* or position read falls back to heading 0 or the origin and does not abort.
C29_OffboardStartOrder ==
    /\ [](\A t \in TaskIds :
            LET r == task[t]
            IN  /\ r.pc \in PastInitChecks => vehArmed /\ vehInAir
                /\ r.pc \in {"i_setpoint", "i_start"} => ~offboard
                /\ r.pc = "i_setpoint"
                   => LastCall(r).call = "set_position_ned" /\ LastCall(r).arg[1] = nedPosition
                /\ \A k \in 1..Len(r.stepCalls) :
                      r.stepCalls[k].call = "offboard_start"
                      => /\ k > 1
                         /\ r.stepCalls[k - 1].call = "set_position_ned"
                         /\ r.stepCalls[k - 1].status = "ok"
                         /\ r.pc = "i_start" => r.stepCalls[k - 1].arg[1] = nedPosition)
    /\ [][\A t \in TaskIds :
            LET r == task[t]
                q == task'[t]
            IN  /\ offboard' /\ ~offboard
                   => \E t2 \in TaskIds :
                         /\ task[t2].pc = "i_start"
                         /\ LastCall(task'[t2]).call = "offboard_start"
                         /\ LastCall(task'[t2]).status = "ok"
                /\ r.pc \in {"i_setpoint", "i_start"} /\ q # r
                   /\ LastCall(q).status \in CallOutcomes \ {"ok"}
                   => ~offboard' /\ q.pc = "ret"
                /\ \A heading \in MoveHeadings :
                      InitYawRead(t, "fail", heading) => q.pc = "i_pos" /\ q.yaw = 0
                /\ \A position \in MovePositions :
                      InitPosRead(t, "fail", position)
                      => /\ q.pc = "i_setpoint"
                         /\ nedPosition' = <<0, 0, 0>>
                         /\ LastCall(q).arg = << <<0, 0, 0>>, r.yaw >>]_vars

\* offboard mode was started after both reads had failed: the setpoint that was
\* accepted is the origin at heading 0
C29_Witness ==
    \E t \in TaskIds :
        /\ task[t].pc = "i_settle"
        /\ offboard
        /\ Len(task[t].stepCalls) = 2
        /\ task[t].stepCalls[1].arg = << <<0, 0, 0>>, 0 >>
        /\ task[t].stepCalls[2].call = "offboard_start"
        /\ task[t].stepCalls[2].status = "ok"

\* C30: whenever execute_movement_command or execute_rotation_command issues its
\* motion setpoint the offboard flag is true, and when offboard mode was inactive
\* on entry the cached position it uses was synchronised by _initialize_offboard
\* during that same call (its setpoint and offboard.start() both succeeded): a
\* stale or undefined position is never used.
C30_SetpointOnlyInOffboard ==
    \A t \in TaskIds :
        task[t].pc = "m_setpoint"
        => LET r == task[t]
               n == Len(r.stepCalls)
           IN  /\ LastCall(r).flag
               /\ ~r.entryOffboard
                  => /\ n >= 3
                     /\ r.stepCalls[n - 2].call = "set_position_ned"
                     /\ r.stepCalls[n - 2].status = "ok"
                     /\ r.stepCalls[n - 1].call = "offboard_start"
                     /\ r.stepCalls[n - 1].status = "ok"
                     /\ r.nedPos = r.stepCalls[n - 2].arg[1]

\* C31: every trigger phrase of the lexicon, given alone as an utterance, parses to
\* exactly the command type it is listed under, also when it contains another
\* trigger ("shutdown" contains "down", "turn left" contains "left", "disarm"
\* contains "arm", "land drone" contains "land").
C31_TriggerAloneParsesToItsType ==
    \A k \in 1..Len(COMMAND_LOOKUP) :
        (parseResult # <<>> /\ parseInput = COMMAND_LOOKUP[k][1])
        => parseResult[1] = << << <<COMMAND_LOOKUP[k][2]>>, None, None >> >>

(***************************************************************************)
(* Properties of the magnitude of a movement or rotation                   *)
(***************************************************************************)
\* the distance or angle the claim expects of the step r is in: the default
\* without a magnitude, else the magnitude times the factor of its unit
ExpectedMagnitude(r, default) ==
    IF distVal(r) = None THEN default
    ELSE distVal(r)[1] * Factor(distType(r)[1])[1]

\* the motion setpoint of step r is the one a distance or angle of `amount` gives
MovesBy(r, amount) ==
    IF cmdType(r) \in MoveCmds
    THEN LastCall(r).arg = <<Displaced(r.nedPos, cmdType(r), amount, r.yaw), r.yaw>>
    ELSE \E heading \in YawChoices :
            LastCall(r).arg = <<r.nedPos, IF cmdType(r) = "RO_RIGHT"
                                          THEN heading + amount ELSE heading - amount>>

\* C32: with SIM_MODE false and the vehicle armed and airborne, a movement without
\* a magnitude moves by 0.1 m and a rotation without one turns by 90 degrees; with
\* a magnitude the distance or angle is the magnitude times the conversion factor
\* of its unit.
C32_MagnitudeUsed ==
    \A t \in TaskIds :
        (task[t].pc = "m_setpoint" /\ (distVal(task[t]) # None => distType(task[t]) # None))
        => MovesBy(task[t], ExpectedMagnitude(task[t], IF cmdType(task[t]) \in MoveCmds
                                                       THEN 1000 ELSE 900000))

\* what does hold: a magnitude of 0 is taken as no magnitude
C32_ZeroTakenAsNone ==
    \A t \in TaskIds :
        (task[t].pc = "m_setpoint" /\ (distVal(task[t]) # None => distType(task[t]) # None))
        => LET r == task[t]
               default == IF cmdType(r) \in MoveCmds THEN 1000 ELSE 900000
           IN  MovesBy(r, IF distVal(r) = <<0>> THEN default
                          ELSE ExpectedMagnitude(r, default))

(***************************************************************************)
(* Properties of execute_command called with a stop request pending        *)
(***************************************************************************)
\* C33: when stopRequested is true as execute_command is entered with a command
\* other than STOP (ARM included), it returns at once: no vehicle call, no
\* telemetry read, offboard flag and cached position unchanged; for STOP the
\* request causes no skip.
C33_StopRequestSkipsCommand ==
    [][\A t \in TaskIds :
         (task[t].pc = "exec" /\ task'[t] # task[t] /\ stopRequested)
         => IF cmdType(task[t]) # "STOP"
            THEN /\ task'[t].pc = "ret"
                 /\ task'[t].result = "None"
                 /\ task'[t].stepCalls = <<>>
                 /\ task'[t].isArmed = "none"
                 /\ task'[t].isInAir = "none"
                 /\ offboard' = offboard
                 /\ nedPosition' = nedPosition
                 /\ droneInstance' = droneInstance
            ELSE IF SIM_MODE
            THEN task'[t].pc = "ret" /\ ~offboard'
            ELSE /\ task'[t].pc = IF offboard THEN "w_offstop" ELSE "w_armed"
                 /\ offboard => LastCall(task'[t]).call = "offboard_stop"]_vars

\* ARM was entered with the stop request pending and returned without a call
C33_Witness ==
    \E t \in TaskIds :
        /\ stopRequested
        /\ ~SIM_MODE
        /\ task[t].pc = "ret"
        /\ cmdType(task[t]) = "ARM"
        /\ task[t].returned = 1
        /\ task[t].stepCalls = <<>>

(***************************************************************************)
(* Properties of the stop request                                          *)
(***************************************************************************)
\* the first command parse_commands returns for the utterance is STOP
FirstIsStop(command) == Parsed[command] # <<>> /\ Parsed[command][1][1] = <<"STOP">>

\* C34: while commandExecuting is true an utterance sets stopRequested if and only
\* if the first command of its parse is STOP; "land then stop", where STOP comes
\* later, does not set it.
C34_StopOnlyWhenFirst ==
    [][\A command \in Utterances :
         (commandExecuting /\ ProcessUtterance(command))
         => stopRequested' = (stopRequested \/ FirstIsStop(command))]_vars

\* the request was set while a chain was waiting on the vehicle
C34_Witness ==
    /\ stopRequested
    /\ commandExecuting
    /\ \E t \in TaskIds : task[t].pc \in SuspendedPcs
    /\ \E u \in Utterances : Contains(u, StopWord) /\ ~FirstIsStop(u)

\* C35: stopRequested is true only while commandExecuting is true: the request is
\* only set when commandExecuting was seen true, and commandExecuting is never set
\* to false without stopRequested being false in the same step.
C35_StopOnlyWhileExecuting ==
    /\ [](stopRequested => commandExecuting)
    /\ [][/\ (stopRequested' /\ ~stopRequested) => commandExecuting
          /\ (commandExecuting /\ ~commandExecuting') => ~stopRequested']_vars

\* a chain that was interrupted by the request has gone through its finally block
C35_Witness ==
    /\ ~commandExecuting
    /\ ~stopRequested
    /\ \E t \in TaskIds : task[t].how = "interrupted"

(***************************************************************************)
(* Properties of DISARM and of the disable commands                        *)
(***************************************************************************)
\* C36: with SIM_MODE false, disarm is only issued in a step whose in-air read
\* returned the value "not in air"; when the read raised or gave no value, disarm
\* is not issued.
C36_DisarmNeedsGroundReading ==
    \A t \in TaskIds :
        \A k \in 1..Len(task[t].stepCalls) :
            task[t].stepCalls[k].call = "disarm" => task[t].isInAir = "false"

\* C37: with SIM_MODE false, whenever execute_command returns for STOP, RETURN,
\* LAND, DISARM or SHUTDOWN entered with the offboard flag true, the flag is
\* false, whatever the outcome of offboard.stop()
C37_DisableLeavesFlagFalse ==
    \A t \in TaskIds :
        (/\ task[t].pc = "ret"
         /\ ~SIM_MODE
         /\ task[t].entryOffboard
         /\ cmdType(task[t]) \in DisableCmds) => ~offboard

\* the same for the outcomes the code handles: success and timeout
C37_HandledOutcomesClearFlag ==
    \A t \in TaskIds :
        (/\ task[t].pc = "ret"
         /\ ~SIM_MODE
         /\ task[t].entryOffboard
         /\ cmdType(task[t]) \in DisableCmds
         /\ task[t].stepCalls # <<>>
         /\ task[t].stepCalls[1].status \in {"ok", "timeout"}) => ~offboard

(***************************************************************************)
(* Properties of a chain interrupted by a STOP utterance                   *)
(***************************************************************************)
\* the calls a STOP command makes on the vehicle
StopCalls == {"hold", "offboard_stop"}

\* C38: a STOP utterance received while a chain is executing only sets
\* stopRequested: the ingestion loop touches neither the tasks nor the vehicle
\* state, a step of a command that is not a disable command never issues hold or
\* offboard stop, the wait loop cut short issues no call, and the interrupted
\* chain exits from the top of its loop with the offboard flag and the cached
\* position as the last executed step left them.
C38_StopUtteranceOnlySetsFlag ==
    /\ [](\A t \in TaskIds :
            (InStep(t) /\ cmdType(task[t]) \notin DisableCmds)
            => \A k \in 1..Len(task[t].stepCalls) :
                    task[t].stepCalls[k].call \notin StopCalls)
    /\ [][/\ \A command \in StopUtterances :
                (commandExecuting /\ ProcessUtterance(command))
                => /\ stopRequested'
                   /\ UNCHANGED <<task, offboard, nedPosition, commandExecuting,
                                  vehArmed, vehInAir, running>>
          /\ \A t \in TaskIds :
                /\ (stopRequested /\ task[t].pc = "m_poll" /\ task'[t] # task[t])
                   => /\ task'[t].pc \in {"ret", "done"}
                      /\ task'[t].pc = "ret" => task'[t].stepCalls = task[t].stepCalls
                      /\ UNCHANGED <<offboard, nedPosition>>
                /\ (task[t].pc = "ret" /\ task'[t].pc = "loop")
                   => UNCHANGED <<offboard, nedPosition>>
                /\ (task[t].how # "interrupted" /\ task'[t].how = "interrupted")
                   => /\ task[t].pc = "loop"
                      /\ stopRequested
                      /\ UNCHANGED <<offboard, nedPosition>>]_vars

\* a chain was interrupted after a movement: the offboard flag is still true and
\* the position of that movement is still cached
C38_Witness ==
    /\ ~SIM_MODE
    /\ offboard
    /\ nedPosition # None
    /\ \E t \in TaskIds : task[t].how = "interrupted" /\ task[t].returned = 1

====
